---- MODULE Spec2Model ----
(***************************************************************************)
(* The cache-invalidation layer of the portfolio site: the revalidation    *)
(* webhook handler (app/api/revalidate/route.ts), the tagged fetches the   *)
(* pages issue through sanityFetch, and the tag-keyed data cache both act  *)
(* on.                                                                     *)
(***************************************************************************)
EXTENDS Integers, Sequences, FiniteSets, TLC

VARIABLES
    secret,            \* process.env.SANITY_REVALIDATE_SECRET is set and non-empty
    dataCache,         \* queries whose sanityFetch result is held by the data cache
    req,               \* the request the POST handler handled last
    resp,              \* the response it returned
    calls,             \* revalidateTag / revalidatePath calls made during that request
    revalidatedTags,   \* the handler's revalidatedTags array (route.ts:84), empty
                       \* when the request returned before creating it
    revalidatedPaths,  \* the handler's revalidatedPaths array (route.ts:85), likewise
    first,             \* history: the first request answered 200, with its outcome,
                       \* whether another request followed it, and whether it was sent again
    fault,             \* the exception raised during the request handled last, if any
    pages,             \* page requests against the CMS and the data cache: the document
                       \* type whose content changes, its content version, the version
                       \* the last answered webhook announced, the version each cached
                       \* result was read at, the renders in flight, and what the page
                       \* request begun last was served from the cache
    fetched,           \* the sanityFetch call made last: its arguments, the calls it
                       \* made on the CMS client, how the client settled and how the
                       \* call settled,
    view,              \* the dataset of the CMS and the page rendered from it last
    measured,          \* the image given to getImageDimensions last, and what it returned
    ui                 \* the page in the browser: the header's menu, the ImageWithPopup
                       \* instances, document.body.style.overflow, the focused element,
                       \* the keydown listeners of the document and the event handled last

\* the webhook handler and the data cache
handlerVars ==
    <<secret, dataCache, req, resp, calls, revalidatedTags, revalidatedPaths, first>>

\* everything else
libVars == <<fetched, view, measured, ui>>
otherVars == <<fault, pages, libVars>>

vars == <<handlerVars, otherVars>>

----------------------------------------------------------------------------
(* Bounds *)

\* number of distinct non-empty slug strings a payload may carry
MaxSlug == 1

----------------------------------------------------------------------------
(* JavaScript values *)

\* an absent field / the value undefined
Undefined == "<undefined>"

\* truthiness of a string-or-undefined value
Truthy(s) == s # Undefined /\ s # ""

\* property names every object literal inherits from Object.prototype; each
\* resolves to a function (or, for __proto__, to an object): truthy, not iterable
ObjectPrototypeKeys ==
    {"constructor", "__proto__", "hasOwnProperty", "isPrototypeOf",
     "propertyIsEnumerable", "toLocaleString", "toString", "valueOf"}

----------------------------------------------------------------------------
(* The handler's tables *)

documentTypeToTags ==
    [homepage     |-> <<"homepage">>,
     aboutPage    |-> <<"aboutPage">>,
     contactPage  |-> <<"contactPage">>,
     siteSettings |-> <<"siteSettings">>,
     navigation   |-> <<"navigation">>,
     blogPost     |-> <<"blogPost">>,
     project      |-> <<"project">>,
     popupContent |-> <<"popupContent">>]

documentTypeToPath ==
    [blogPost |-> "/blog",
     project  |-> "/projects"]

singletonPaths ==
    [homepage    |-> "/",
     aboutPage   |-> "/about",
     contactPage |-> "/contact"]

----------------------------------------------------------------------------
(* Requests *)

Slugs == {"s" \o ToString(i) : i \in 1..MaxSlug}

\* document types a webhook payload may name: the table keys, types of the
\* dataset the tables do not list, and a type named like an inherited property
TypeNames ==
    DOMAIN documentTypeToTags \cup {"unknownType", "sanity.imageAsset", "constructor"}

\* body?._type and body?.slug?.current as the handler reads them
Bodies ==
    [isNull : {FALSE}, _type : TypeNames \cup {"", Undefined},
     slugCurrent : Slugs \cup {"", Undefined}]
    \cup [isNull : {TRUE}, _type : {Undefined}, slugCurrent : {Undefined}]

\* what parseBody returns: isValidSignature is true, false or null
Requests == [isValidSignature : {"true", "false", "null"}, body : Bodies]

NoRequest ==
    [isValidSignature |-> "null",
     body |-> [isNull |-> TRUE, _type |-> Undefined, slugCurrent |-> Undefined]]

NoResponse == [status |-> 0, body |-> [message |-> "no request handled"]]

----------------------------------------------------------------------------
(* The POST handler, route.ts:34-166 *)

TagCall(tag) == [fn |-> "revalidateTag", arg |-> tag, scope |-> ""]
PathCall(path, scope) == [fn |-> "revalidatePath", arg |-> path, scope |-> scope]

\* TagsFor whose fallback branch calls revalidateTag without recording the tag
TagsForUnrecorded(_type) ==
    IF _type \in DOMAIN documentTypeToTags
    THEN [thrown |-> FALSE, called |-> documentTypeToTags[_type],
          pushed |-> documentTypeToTags[_type]]
    ELSE IF _type \in ObjectPrototypeKeys
    THEN [thrown |-> TRUE, called |-> <<>>, pushed |-> <<>>]
    ELSE [thrown |-> FALSE, called |-> <<_type>>, pushed |-> <<>>]

\* route.ts:88-98: the tags passed to revalidateTag and pushed to the array for
\* _type, or a TypeError when the table lookup finds an inherited property,
\* which is truthy and which for...of cannot iterate
TagsFor(_type) ==
    IF _type \in DOMAIN documentTypeToTags
    THEN [thrown |-> FALSE, called |-> documentTypeToTags[_type],
          pushed |-> documentTypeToTags[_type]]
    ELSE IF _type \in ObjectPrototypeKeys
    THEN [thrown |-> TRUE, called |-> <<>>, pushed |-> <<>>]
    ELSE [thrown |-> FALSE, called |-> <<_type>>, pushed |-> <<_type>>]

\* DetailPaths without the test of slug.current
DetailPathsAnySlug(_type, slugCurrent) ==
    IF _type \in DOMAIN documentTypeToPath
    THEN << [call |-> PathCall(documentTypeToPath[_type] \o "/" \o slugCurrent, "page"),
             pushed |-> documentTypeToPath[_type] \o "/" \o slugCurrent] >>
    ELSE <<>>

\* route.ts:101-105: the detail page of a document with a slug
DetailPaths(_type, slugCurrent) ==
    IF Truthy(slugCurrent) /\ _type \in DOMAIN documentTypeToPath
    THEN << [call |-> PathCall(documentTypeToPath[_type] \o "/" \o slugCurrent, "page"),
             pushed |-> documentTypeToPath[_type] \o "/" \o slugCurrent] >>
    ELSE <<>>

\* SingletonPaths looking the type up in the detail-path table
SingletonPathsWrongTable(_type) ==
    IF _type \in DOMAIN documentTypeToPath
    THEN << [call |-> PathCall(documentTypeToPath[_type], "page"),
             pushed |-> documentTypeToPath[_type]] >>
    ELSE <<>>

\* route.ts:108-117: the fixed page of a singleton type
SingletonPaths(_type) ==
    IF _type \in DOMAIN singletonPaths
    THEN << [call |-> PathCall(singletonPaths[_type], "page"),
             pushed |-> singletonPaths[_type]] >>
    ELSE <<>>

\* LayoutPaths handling siteSettings alone
LayoutPathsSettingsOnly(_type) ==
    IF _type = "siteSettings"
    THEN << [call |-> PathCall("/", "layout"), pushed |-> "/ (layout)"] >>
    ELSE <<>>

\* route.ts:120-123: the whole layout for settings and navigation
LayoutPaths(_type) ==
    IF _type = "siteSettings" \/ _type = "navigation"
    THEN << [call |-> PathCall("/", "layout"), pushed |-> "/ (layout)"] >>
    ELSE <<>>

\* route.ts:126-140: the listing page and the homepage for collection types
ListingPaths(_type) ==
    (IF _type = "blogPost"
     THEN << [call |-> PathCall("/blog", "page"), pushed |-> "/blog"],
             [call |-> PathCall("/", "page"), pushed |-> "/"] >>
     ELSE <<>>)
    \o
    (IF _type = "project"
     THEN << [call |-> PathCall("/projects", "page"), pushed |-> "/projects"],
             [call |-> PathCall("/", "page"), pushed |-> "/"] >>
     ELSE <<>>)

\* route.ts:100-140 in program order
PathsFor(_type, slugCurrent) ==
    DetailPaths(_type, slugCurrent) \o SingletonPaths(_type)
        \o LayoutPaths(_type) \o ListingPaths(_type)

\* the arrays kept across requests, as module-level arrays would be
KeptArray(previous) == previous

\* route.ts:84-85: the two arrays are created empty in every request;
\* previous is what the preceding request left in them
NewArray(previous) == <<>>

Map(f(_), s) == [i \in 1..Len(s) |-> f(s[i])]
CallOf(p) == p.call
PushedOf(p) == p.pushed

\* Rejection with the payload check moved ahead of the signature check
RejectionTypeFirst(env, r) ==
    IF ~env
    THEN [status |-> 500,
          body |-> [message |-> "Missing environment variable SANITY_REVALIDATE_SECRET"]]
    ELSE IF r.body.isNull \/ ~Truthy(r.body._type)
    THEN [status |-> 400,
          body |-> [message |-> "Bad Request: missing _type in payload"]]
    ELSE IF r.isValidSignature # "true"
    THEN [status |-> 401,
          body |-> [message |-> "Invalid signature",
                    isValidSignature |-> r.isValidSignature]]
    ELSE [status |-> 0, body |-> [message |-> ""]]

\* route.ts:37-81: the three checks, in program order; status 0 when all pass
Rejection(env, r) ==
    IF ~env
    THEN [status |-> 500,
          body |-> [message |-> "Missing environment variable SANITY_REVALIDATE_SECRET"]]
    ELSE IF r.isValidSignature # "true"
    THEN [status |-> 401,
          body |-> [message |-> "Invalid signature",
                    isValidSignature |-> r.isValidSignature]]
    ELSE IF r.body.isNull \/ ~Truthy(r.body._type)
    THEN [status |-> 400,
          body |-> [message |-> "Bad Request: missing _type in payload"]]
    ELSE [status |-> 0, body |-> [message |-> ""]]

\* route.ts:83-165: the invalidations of an accepted request and the response
\* reporting them, or the catch block's response when the tag loop throws
Revalidation(_type, slugCurrent, tags0, paths0) ==
    LET t == TagsFor(_type)
        p == PathsFor(_type, slugCurrent)
    IN  IF t.thrown
        THEN [status |-> 500,
              body |-> [message |-> "Error processing webhook",
                        error |-> "tags is not iterable"],
              calls |-> <<>>,
              tags |-> NewArray(tags0), paths |-> NewArray(paths0)]
        ELSE [status |-> 200,
              body |-> [revalidated |-> TRUE, type |-> _type,
                        tags |-> NewArray(tags0) \o t.pushed,
                        paths |-> NewArray(paths0) \o Map(PushedOf, p)],
              calls |-> Map(TagCall, t.called) \o Map(CallOf, p),
              tags |-> NewArray(tags0) \o t.pushed,
              paths |-> NewArray(paths0) \o Map(PushedOf, p)]

\* Handle with the invalidations made before the checks are consulted
HandleRevalidatesFirst(env, r, tags0, paths0) ==
    LET rejected == Rejection(env, r)
        done     == Revalidation(r.body._type, r.body.slugCurrent, tags0, paths0)
    IN  IF rejected.status # 0
        THEN [status |-> rejected.status, body |-> rejected.body,
              calls |-> done.calls, tags |-> <<>>, paths |-> <<>>]
        ELSE done

\* The whole handler: the response, the calls made, and the arrays' contents.
\* tags0 / paths0 are the arrays' contents left by the previous request.
Handle(env, r, tags0, paths0) ==
    LET rejected == Rejection(env, r) IN
    IF rejected.status # 0
    THEN [status |-> rejected.status, body |-> rejected.body,
          calls |-> <<>>, tags |-> <<>>, paths |-> <<>>]
    ELSE Revalidation(r.body._type, r.body.slugCurrent, tags0, paths0)

----------------------------------------------------------------------------
(* Exceptions inside the handler's try block, route.ts:35-165 *)

\* no exception; parseBody throws; or the index-th revalidateTag /
\* revalidatePath call of the request throws. The thrown value is an Error
\* with a message, or something that is not an Error.
NoFault == [at |-> "none", index |-> 0, isError |-> TRUE, message |-> ""]

\* the most calls one request makes: a tag, a detail path and two listing paths
MaxCalls == 4

Faults ==
    {NoFault}
    \cup [at : {"parseBody"}, index : {0}, isError : {TRUE}, message : {"unexpected token"}]
    \cup [at : {"parseBody"}, index : {0}, isError : {FALSE}, message : {""}]
    \cup [at : {"call"}, index : 1..MaxCalls, isError : {TRUE},
          message : {"static generation store missing"}]

\* a catch block that lets the exception go on to the caller: no response
Rethrow(f, done) ==
    [status |-> 0, body |-> [message |-> "no request handled"],
     calls |-> done, tags |-> <<>>, paths |-> <<>>]

\* route.ts:156-165: the catch block; done are the calls completed before the throw
Catch(f, done) ==
    [status |-> 500,
     body |-> [message |-> "Error processing webhook",
               error |-> IF f.isError THEN f.message ELSE "Unknown error"],
     calls |-> done, tags |-> <<>>, paths |-> <<>>]

\* The handler when f is raised: the secret check precedes the try block's
\* first call; parseBody's exception leaves no body to read; a failing call
\* ends the request after the calls made before it.
HandleFault(env, r, f, tags0, paths0) ==
    LET normal == Handle(env, r, tags0, paths0) IN
    IF f.at = "parseBody" /\ env
    THEN Catch(f, <<>>)
    ELSE IF f.at = "call" /\ normal.status = 200 /\ f.index <= Len(normal.calls)
    THEN Catch(f, SubSeq(normal.calls, 1, f.index - 1))
    ELSE normal

----------------------------------------------------------------------------
(* The tagged fetches, sanity/lib/client.ts and the pages *)

\* tags each query is fetched under, at every sanityFetch call site:
\* app/(site)/page.tsx, blog/page.tsx, blog/[slug]/page.tsx, projects/page.tsx,
\* projects/[slug]/page.tsx, about/page.tsx, contact/page.tsx,
\* components/layout/Header.tsx and Footer.tsx
QueryTags ==
    [siteSettingsQuery           |-> {"siteSettings"},
     navigationQuery             |-> {"navigation"},
     homepageQuery               |-> {"homepage"},
     featuredPostsQuery          |-> {"blogPost"},
     featuredProjectsQuery       |-> {"project"},
     blogPostsQuery              |-> {"blogPost"},
     blogPostCountQuery          |-> {"blogPost"},
     blogPostBySlugQuery         |-> {"blogPost"},
     blogPostSlugsQuery          |-> {"blogPost"},
     projectsQuery               |-> {"project"},
     projectCountByCategoryQuery |-> {"project"},
     projectBySlugQuery          |-> {"project"},
     projectSlugsQuery           |-> {"project"},
     adjacentProjectsQuery       |-> {"project"},
     aboutPageQuery              |-> {"aboutPage"},
     contactPageQuery            |-> {"contactPage"}]

Queries == DOMAIN QueryTags

\* document types each query reads: its filter's _type, and the types reached
\* through asset-> (sanity.imageAsset) and popup-> (popupContent)
QueryReads ==
    [siteSettingsQuery           |-> {"siteSettings", "sanity.imageAsset"},
     navigationQuery             |-> {"navigation"},
     homepageQuery               |-> {"homepage", "sanity.imageAsset"},
     featuredPostsQuery          |-> {"blogPost", "sanity.imageAsset"},
     featuredProjectsQuery       |-> {"project", "sanity.imageAsset"},
     blogPostsQuery              |-> {"blogPost", "sanity.imageAsset"},
     blogPostCountQuery          |-> {"blogPost"},
     blogPostBySlugQuery         |-> {"blogPost", "sanity.imageAsset", "popupContent"},
     blogPostSlugsQuery          |-> {"blogPost"},
     projectsQuery               |-> {"project", "sanity.imageAsset"},
     projectCountByCategoryQuery |-> {"project"},
     projectBySlugQuery          |-> {"project", "sanity.imageAsset", "popupContent"},
     projectSlugsQuery           |-> {"project"},
     adjacentProjectsQuery       |-> {"project", "sanity.imageAsset"},
     aboutPageQuery              |-> {"aboutPage", "sanity.imageAsset"},
     contactPageQuery            |-> {"contactPage", "sanity.imageAsset"}]

\* the queries each route fetches when it is generated or rendered
RouteQueries ==
    [layout      |-> {"siteSettingsQuery", "navigationQuery"},
     home        |-> {"homepageQuery", "featuredPostsQuery", "featuredProjectsQuery"},
     blog        |-> {"siteSettingsQuery", "blogPostsQuery", "blogPostCountQuery"},
     blogPost    |-> {"blogPostSlugsQuery", "blogPostBySlugQuery", "siteSettingsQuery"},
     projects    |-> {"siteSettingsQuery", "projectsQuery", "projectCountByCategoryQuery"},
     project     |-> {"projectSlugsQuery", "projectBySlugQuery", "siteSettingsQuery",
                      "adjacentProjectsQuery"},
     about       |-> {"aboutPageQuery"},
     contact     |-> {"contactPageQuery"}]

Routes == DOMAIN RouteQueries

\* revalidateTag(tag) on the data cache: every entry carrying the tag is dropped
RevalidateTag(cache, tag) == {q \in cache : tag \notin QueryTags[q]}

\* the data cache after a request's calls, in call order
RECURSIVE ApplyCalls(_, _)
ApplyCalls(cache, cs) ==
    IF cs = <<>> THEN cache
    ELSE ApplyCalls(IF Head(cs).fn = "revalidateTag"
                    THEN RevalidateTag(cache, Head(cs).arg)
                    ELSE cache,
                    Tail(cs))

----------------------------------------------------------------------------
(* Page requests, the CMS and the data cache *)

\* content changes of the followed type in one behaviour
MaxChanges == 1

\* renders in flight at one time
MaxInflight == 1

\* the queries fetched under one of the tags the handler invalidates for type
TaggedFor(type) ==
    {q \in Queries :
        \E i \in 1..Len(documentTypeToTags[type]) :
            documentTypeToTags[type][i] \in QueryTags[q]}

NotCached == -1

\* the result of a query: in the data cache (results), and as handed to the
\* render in progress (gathered)
NoResult == [held |-> FALSE]
Result(value) == [held |-> TRUE, value |-> value]

\* the two fetches of the projects page, projects/page.tsx:67-76
ProjectsFetches == {"projectsQuery", "projectCountByCategoryQuery"}

NoPages ==
    [type |-> "", version |-> 0, hooked |-> 0,
     cachedAt |-> [q \in Queries |-> NotCached], inflight |-> {}, served |-> {},
     results |-> [q \in ProjectsFetches |-> NoResult],
     gathered |-> [q \in ProjectsFetches |-> NoResult]]

\* sanityFetch at the start of a render, client.ts:25-30: a query whose result
\* the data cache holds is served from it; any other is sent to the CMS, which
\* evaluates it over the content of that moment
Hits(cache, route) == RouteQueries[route] \cap cache
Misses(cache, route) == RouteQueries[route] \ cache

----------------------------------------------------------------------------
(* sanityFetch, sanity/lib/client.ts *)

\* an argument the caller left out
Omitted == [given |-> FALSE]
Given(v) == [given |-> TRUE, value |-> v]

\* revalidate = 60, client.ts:17
DefaultRevalidate == 60

Number(n) == [kind |-> "number", n |-> n]
False == [kind |-> "false"]

\* the revalidate periods callers pass, in seconds
RevalidatePeriods == {0, DefaultRevalidate, 3600}

FetchArgs ==
    [query      : {"siteSettingsQuery", "blogPostBySlugQuery"},
     params     : {Omitted, Given([slug |-> "s1"]), Given([start |-> 0, end |-> 9])},
     revalidate : {Omitted, Given(False)} \cup {Given(Number(n)) : n \in RevalidatePeriods},
     tags       : {Omitted, Given(<<>>), Given(<<"blogPost">>)}]

\* how client.fetch settles
ClientOutcomes ==
    {[settled |-> "resolved", value |-> "result"],
     [settled |-> "resolved", value |-> "null"],
     [settled |-> "rejected", value |-> "ClientError: request failed"]}

\* a destructured parameter's default applies when the argument is left out
OrDefault(arg, default) == IF arg.given THEN arg.value ELSE default

ClientFetchCallNoCache(args) ==
    [query |-> args.query,
     params |-> OrDefault(args.params, [x \in {} |-> 0]),
     options |-> [next |-> [revalidate |-> OrDefault(args.revalidate, False),
                            tags |-> OrDefault(args.tags, <<>>)]]]

\* client.fetch<T>(query, params, {next: {revalidate, tags}}), client.ts:25-30
ClientFetchCall(args) ==
    [query |-> args.query,
     params |-> OrDefault(args.params, [x \in {} |-> 0]),
     options |-> [next |-> [revalidate |-> OrDefault(args.revalidate, Number(DefaultRevalidate)),
                            tags |-> OrDefault(args.tags, <<>>)]]]

SanityFetchWithFallback(args, outcome) ==
    [calls |-> IF outcome.settled = "rejected"
               THEN <<ClientFetchCall(args), ClientFetchCall(args)>>
               ELSE <<ClientFetchCall(args)>>,
     outcome |-> IF outcome.settled = "rejected"
                 THEN [settled |-> "resolved", value |-> "null"]
                 ELSE outcome]

\* sanityFetch returns the promise of its one client.fetch call
sanityFetch(args, outcome) ==
    [calls |-> <<ClientFetchCall(args)>>, outcome |-> outcome]

NoFetch == [called |-> FALSE]

----------------------------------------------------------------------------
(* The dataset and the queries of sanity/lib/queries.ts *)

\* the result of [0] on an empty list, and of a projection of it
Null == [null |-> TRUE]

NoView == [docs |-> {}, page |-> [route |-> "none"]]

\* documents are told apart by _id; a list a query orders keeps documents of
\* equal key in _id order
RECURSIVE Order(_, _, _)
Order(docs, key, direction) ==
    IF docs = {} THEN <<>>
    ELSE LET head == CHOOSE d \in docs :
                        \A e \in docs \ {d} :
                            \/ key[d] * direction < key[e] * direction
                            \/ key[d] = key[e] /\ d._id < e._id
         IN  <<head>> \o Order(docs \ {head}, key, direction)

Asc == 1
Desc == -1

\* list[0]
First(list) == IF list = <<>> THEN Null ELSE list[1]

OfType(docs, type) == {d \in docs : d._type = type}

\* a date field holds "YYYY-MM-DD"; Date.prototype.toISOString gives
\* "YYYY-MM-DDTHH:mm:ss.sssZ". Both are strings to a query, compared character
\* by character, so a date is less than every instant of its own day.
DateOf(day) == [day |-> day, time |-> FALSE]
toISOString(day) == [day |-> day, time |-> TRUE]
Less(a, b) == a.day < b.day \/ (a.day = b.day /\ ~a.time /\ b.time)

\* projects and dates in a dataset
MaxProjects == 3
MaxDate == 3

ProjectSlug(id) == "look-" \o ToString(id)

\* the documents of a set in the order * lists them
Listed(docs) == Order(docs, [d \in docs |-> 0], Asc)

\* slugs that differ in case only
Lower ==
    [gala |-> "gala", Gala |-> "gala", GALA |-> "gala", muse |-> "muse"]

blogPostBySlugQueryAnyCase(docs, slug) ==
    First(Listed({d \in OfType(docs, "blogPost") : Lower[d.slug] = Lower[slug]}))

\* *[_type == "blogPost" && slug.current == $slug][0], queries.ts:206-222
blogPostBySlugQuery(docs, slug) ==
    First(Listed({d \in OfType(docs, "blogPost") : d.slug = slug}))

\* *[_type == "project" && slug.current == $slug][0], queries.ts:327-340
projectBySlugQuery(docs, slug) ==
    First(Listed({d \in OfType(docs, "project") : d.slug = slug}))

\* *[_type == "siteSettings"][0], queries.ts:81-101
siteSettingsQuery(docs) == First(Listed(OfType(docs, "siteSettings")))

\* a || b on strings and absent values
Or(a, b) == IF Truthy(a) THEN a ELSE b

\* reading a property of null throws
TypeError == "TypeError: Cannot read properties of null"
Thrown == [threw |-> TypeError]

\* obj.field
Field(obj, field) == IF obj = Null THEN TypeError ELSE obj[field]

\* obj?.field
OptionalField(obj, field) == IF obj = Null THEN Undefined ELSE obj[field]

\* what a function returns once every value it read has been read
Completes(read, result) == IF TypeError \in read THEN Thrown ELSE result

\* *[_type == "navigation"][0], queries.ts:107-117
navigationQuery(docs) == First(Listed(OfType(docs, "navigation")))

\* *[_type == "homepage"][0], queries.ts:127-140
homepageQuery(docs) == First(Listed(OfType(docs, "homepage")))

\* *[_type == "aboutPage"][0], queries.ts:398-419
aboutPageQuery(docs) == First(Listed(OfType(docs, "aboutPage")))

\* *[_type == "contactPage"][0], queries.ts:425-436
contactPageQuery(docs) == First(Listed(OfType(docs, "contactPage")))

\* a title with the site's name, `${section} | ${settings?.siteName || fallback}`
TitledMetadata(docs, section, fallback) ==
    LET siteName == Or(OptionalField(siteSettingsQuery(docs), "siteName"), fallback)
    IN  Completes({siteName}, [title |-> section \o " | " \o siteName])

\* generateMetadata, blog/[slug]/page.tsx:43-92
BlogPostMetadata(docs, slug) ==
    LET post == blogPostBySlugQuery(docs, slug)
    IN  IF post = Null THEN [title |-> "Post Not Found"]
        ELSE TitledMetadata(docs, post.title, "Fashion Blog")

\* generateMetadata, projects/[slug]/page.tsx:57-111
ProjectMetadata(docs, slug) ==
    LET project == projectBySlugQuery(docs, slug)
    IN  IF project = Null THEN [title |-> "Project Not Found"]
        ELSE TitledMetadata(docs, project.title, "Fashion Portfolio")

\* generateMetadata, blog/page.tsx:25-39
BlogMetadata(docs) == TitledMetadata(docs, "Journal", "Fashion Blog")

\* generateMetadata, projects/page.tsx:38-52
ProjectsMetadata(docs) == TitledMetadata(docs, "Portfolio", "Fashion Portfolio")

\* generateMetadata of the home, about and contact pages: page?.seo?.metaTitle || fallback
PageMetadata(page, fallback) ==
    LET title == Or(OptionalField(page, "metaTitle"), fallback)
    IN  Completes({title}, [title |-> title])

\* the heading of the home, about and contact pages: page?.heading || fallback
PageHeading(page, field, fallback) ==
    LET heading == Or(OptionalField(page, field), fallback)
    IN  Completes({heading}, [heading |-> heading])

\* HeaderClient.tsx:17-179 and FooterClient.tsx: the site's name and the menu
\* (navigation?.mainMenu?.map renders nothing without a menu)
LayoutContent(settings, navigation) ==
    LET siteName == Or(OptionalField(settings, "siteName"), "Fashion")
        menu == Or(OptionalField(navigation, "mainMenu"), "")
    IN  Completes({siteName, menu},
                  [header |-> [siteName |-> siteName, menu |-> menu],
                   footer |-> [siteName |-> siteName]])

\* whether a page and its metadata function returned
Outcome(parts) == IF Thrown \in parts THEN "error" ELSE "rendered"

\* the categories of the schema, sanity/schemas/documents/project.ts:69-77
Categories == {"editorial", "campaign", "lookbook", "styling", "personal"}

\* const SHOW_FILTER_THRESHOLD = 5, projects/page.tsx:29
SHOW_FILTER_THRESHOLD == 5

Count(docs, category) == Cardinality({d \in OfType(docs, "project") : d.category = category})

projectCountByCategoryQueryListed(docs) ==
    [c \in Categories \cup {"all"} |->
        IF c = "all"
        THEN Cardinality({d \in OfType(docs, "project") : d.category \in Categories})
        ELSE Count(docs, c)]

\* queries.ts:356-365
projectCountByCategoryQuery(docs) ==
    [c \in Categories \cup {"all"} |->
        IF c = "all" THEN Cardinality(OfType(docs, "project")) ELSE Count(docs, c)]

\* *[_type == "project"] | order(date desc), queries.ts:294-304
projectsQuery(docs) ==
    LET projects == OfType(docs, "project")
    IN  Order(projects, [d \in projects |-> d.date], Desc)

\* queries.ts:373-388
adjacentProjectsQuery(docs, date, slug) ==
    LET newer == {d \in OfType(docs, "project") : Less(DateOf(d.date), date)  = FALSE
                                                  /\ Less(date, DateOf(d.date))}
        older == {d \in OfType(docs, "project") : Less(DateOf(d.date), date)
                                                  /\ d.slug # slug}
    IN  [previous |-> First(Order(newer, [d \in newer |-> d.date], Asc)),
         next     |-> First(Order(older, [d \in older |-> d.date], Desc))]

\* blog posts in a dataset, and the listing pages requested
MaxPosts == 20
MaxPage == 4

\* const POSTS_PER_PAGE = 9, blog/page.tsx:16
POSTS_PER_PAGE == 9

Max(a, b) == IF a >= b THEN a ELSE b
Min(a, b) == IF a <= b THEN a ELSE b

\* list[start..end], both ends included
SliceInclusive(list, start, end) ==
    SubSeq(list, start + 1, Min(end + 1, Len(list)))

\* list[start...end]: the elements at the zero-based indexes start to end - 1
\* that the list has
Slice(list, start, end) ==
    SubSeq(list, start + 1, Min(end, Len(list)))

\* *[_type == "blogPost"] | order(publishedAt desc)[$start...$end], queries.ts:181-191
blogPostsQuery(docs, start, end) ==
    LET posts == OfType(docs, "blogPost")
    IN  Slice(Order(posts, [d \in posts |-> d.publishedAt], Desc), start, end)

\* count(*[_type == "blogPost"]), queries.ts:197-199
blogPostCountQuery(docs) == Cardinality(OfType(docs, "blogPost"))

----------------------------------------------------------------------------
(* getImageDimensions, sanity/lib/image.ts *)

\* a string is the sequence of its characters
Digits == <<"0", "1", "2", "3", "4", "5", "6", "7", "8", "9">>

DigitValue(c) == (CHOOSE i \in 1..Len(Digits) : Digits[i] = c) - 1

IsDigit(c) == \E i \in 1..Len(Digits) : Digits[i] = c

\* the decimal numeral of a natural number
RECURSIVE Decimal(_)
Decimal(n) ==
    IF n < 10 THEN <<Digits[n + 1]>> ELSE Decimal(n \div 10) \o <<Digits[(n % 10) + 1]>>

\* String.prototype.split with a one-character separator
RECURSIVE Split(_, _)
Split(string, separator) ==
    IF \A i \in 1..Len(string) : string[i] # separator
    THEN <<string>>
    ELSE LET at == CHOOSE i \in 1..Len(string) :
                      string[i] = separator /\ \A j \in 1..i - 1 : string[j] # separator
         IN  <<SubSeq(string, 1, at - 1)>> \o Split(SubSeq(string, at + 1, Len(string)), separator)

\* a JavaScript number: a natural number, or NaN; Missing is the undefined of a
\* destructured element the array does not have
NaN == [nan |-> TRUE]
Missing == [nan |-> TRUE, undefined |-> TRUE]
Num(n) == [nan |-> FALSE, n |-> n]

RECURSIVE DecimalValue(_)
DecimalValue(string) ==
    IF string = <<>> THEN 0
    ELSE DecimalValue(SubSeq(string, 1, Len(string) - 1)) * 10 + DigitValue(string[Len(string)])

\* Number(string) for strings of decimal digits, the empty string (0) and
\* strings with a character no numeral has (NaN)
ToNumber(string) ==
    IF \A i \in 1..Len(string) : IsDigit(string[i]) THEN Num(DecimalValue(string)) ELSE NaN

Falsy(number) == number.nan \/ number.n = 0

\* number || 0
OrZero(number) == IF Falsy(number) THEN 0 ELSE number.n

\* Math.max and the arithmetic operators: NaN if an operand is NaN
MathMax(a, b) == IF a.nan \/ b.nan THEN NaN ELSE Num(IF a.n >= b.n THEN a.n ELSE b.n)
Minus(a, b) == IF a.nan \/ b.nan THEN NaN ELSE Num(a.n - b.n)
Times(a, b) == IF a.nan \/ b.nan THEN NaN ELSE Num(a.n * b.n)
Plus(a, b) == IF a.nan \/ b.nan THEN NaN ELSE Num(a.n + b.n)

RECURSIVE TrimStart(_)
TrimStart(string) ==
    IF string # <<>> /\ string[1] = " " THEN TrimStart(Tail(string)) ELSE string

\* the longest prefix of decimal digits
RECURSIVE DigitPrefix(_)
DigitPrefix(string) ==
    IF string # <<>> /\ IsDigit(string[1])
    THEN <<string[1]>> \o DigitPrefix(Tail(string))
    ELSE <<>>

\* parseInt(string, 10): leading white space is skipped, then an optional sign
\* and the digits up to the first character that is none; NaN without a digit
parseInt(string) ==
    LET trimmed == TrimStart(string)
        signed == trimmed # <<>> /\ trimmed[1] \in {"-", "+"}
        digits == DigitPrefix(IF signed THEN Tail(trimmed) ELSE trimmed)
    IN  IF digits = <<>> THEN NaN
        ELSE Num((IF signed /\ trimmed[1] = "-" THEN -1 ELSE 1) * DecimalValue(digits))

\* a query parameter the URL does not have
NoParam == <<Undefined>>

\* param || fallback, for a query parameter
OrParam(param, fallback) == IF param = NoParam \/ param = <<>> THEN fallback ELSE param

\* the client's fetch rejects
Rejected == [threw |-> "ClientError"]

\* the answer to blogPostsQuery; a NaN bound reaches the API as null, and what
\* the API answers then is not in the source: no posts, or an error
PostsFetched(docs, start, end) ==
    IF start.nan \/ end.nan THEN {<<>>, Rejected}
    ELSE {blogPostsQuery(docs, start.n, end.n)}

RECURSIVE GCD(_, _)
GCD(a, b) == IF b = 0 THEN a ELSE GCD(b, a % b)

\* the quotient a / b of two naturals, b > 0, as a fraction in lowest terms
Quotient(a, b) == [num |-> a \div GCD(a, b), den |-> b \div GCD(a, b)]

\* an image with its asset reference, or without one
NoReference == [asset |-> FALSE]
Referring(ref) == [asset |-> TRUE, _ref |-> ref]

\* image.ts:15-37, with the position of the dimensions among the parts of the
\* reference (ref.split('-')[2] is the third)
DimensionsAt(image, position) ==
    LET fallback == [width |-> 0, height |-> 0, aspectRatio |-> Quotient(1, 1)]
    IN  IF ~image.asset \/ image._ref = <<>>
        THEN fallback
        ELSE LET parts == Split(image._ref, "-")
             IN  IF Len(parts) < position \/ parts[position] = <<>>
                 THEN fallback
                 ELSE LET numbers == Split(parts[position], "x")
                          width == ToNumber(numbers[1])
                          height == IF Len(numbers) >= 2 THEN ToNumber(numbers[2]) ELSE Missing
                      IN  [width |-> OrZero(width),
                           height |-> OrZero(height),
                           aspectRatio |-> IF Falsy(height) THEN Quotient(1, 1)
                                           ELSE IF width.nan THEN NaN
                                           ELSE Quotient(width.n, height.n)]

getImageDimensionsOfId(image) == DimensionsAt(image, 2)

getImageDimensions(image) == DimensionsAt(image, 3)

NotMeasured == [called |-> FALSE]

\* widths and heights of images, in pixels
MaxDimension == 12

\* asset ids and formats
AssetIds == {<<"a", "b", "c">>, <<"7", "f", "3", "x", "9">>}
Extensions == {<<"j", "p", "g">>, <<"p", "n", "g">>}

\* image-{id}-{W}x{H}-{ext}
AssetReference(id, width, height, extension) ==
    <<"i", "m", "a", "g", "e", "-">> \o id \o <<"-">> \o Decimal(width) \o <<"x">>
        \o Decimal(height) \o <<"-">> \o extension

WellFormedImages ==
    {[image |-> Referring(AssetReference(id, w, h, e)), W |-> w, H |-> h] :
        id \in AssetIds, w \in 1..MaxDimension, h \in 1..MaxDimension, e \in Extensions}

\* image-a-{token}-j
WithToken(token) ==
    Referring(<<"i", "m", "a", "g", "e", "-", "a", "-">> \o token \o <<"-", "j">>)

\* images without a reference, and references whose dimension token is
\* missing, empty, without an 'x', or with a width or a height that is no numeral
OtherImages ==
    {[image |-> i, W |-> 0, H |-> 0] :
        i \in {NoReference, Referring(<<>>), Referring(<<"i", "m", "a", "g", "e">>),
               Referring(<<"i", "m", "a", "g", "e", "-", "a">>),
               WithToken(<<>>),
               WithToken(<<"w", "x", "h">>),
               WithToken(<<"1", "2">>),
               WithToken(<<"w", "x", "8">>),
               WithToken(<<"1", "2", "x", "h">>)}}

----------------------------------------------------------------------------
(* The client components: ImageWithPopup and HeaderClient *)

\* ImageWithPopup instances on a page
MaxImages == 2
Images == 1..MaxImages

\* the popup prop: absent, or with its fields set or not
NoPopup == [given |-> FALSE, title |-> Undefined, description |-> Undefined, link |-> Undefined]
Popups ==
    {NoPopup,
     [given |-> TRUE, title |-> Undefined, description |-> "", link |-> "https://shop"],
     [given |-> TRUE, title |-> "Silk dress", description |-> Undefined, link |-> Undefined],
     [given |-> TRUE, title |-> Undefined, description |-> "Styling notes",
      link |-> "https://shop"]}

\* const hasPopup = popup && (popup.title || popup.description), part_009:61
hasPopup(popup) == popup.given /\ (Truthy(popup.title) \/ Truthy(popup.description))

\* the elements focus can be on
Body == [element |-> "body", image |-> 0]
Trigger(i) == [element |-> "View Details", image |-> i]
CloseButton(i) == [element |-> "Close popup", image |-> i]
PopupLink(i) == [element |-> "popup link", image |-> i]
MenuButton == [element |-> "menu button", image |-> 0]
MenuCloseButton == [element |-> "Close menu", image |-> 0]
MenuLink == [element |-> "menu link", image |-> 0]

\* a click on text of modal i: no element has focus (document.activeElement is
\* the body) and the next Tab starts from the text
ModalText(i) == [element |-> "body", image |-> i]

\* a focusable element of the page that belongs to no modal and to no menu
Page == [element |-> "page", image |-> 0]

Paths == {"/", "/projects/gala"}

NoEvent == [kind |-> "none", image |-> 0]

NoUI ==
    [pathname |-> "/",
     popup |-> [i \in Images |-> NoPopup],
     mounted |-> [i \in Images |-> FALSE],
     isOpen |-> [i \in Images |-> FALSE],
     mobileMenuOpen |-> FALSE,
     overflow |-> "",
     activeElement |-> Body,
     keydown |-> <<>>,
     event |-> NoEvent]

Without(listeners, owner) == SelectSeq(listeners, LAMBDA l : l # owner)

\* isOpen && popup: the modal is rendered, part_009:293
ModalShown(u, i) == u.mounted[i] /\ u.isOpen[i] /\ u.popup[i].given

\* setIsOpen(value), the re-render and the effects of part_009:103-129: the
\* clean-up of the effect of the last render, then the effect of this one
setIsOpen(u, i, value) ==
    IF u.isOpen[i] = value THEN u
    ELSE IF value
    THEN [u EXCEPT !.isOpen[i] = TRUE,
                   !.keydown = Append(Without(@, i), i),
                   !.overflow = "hidden",
                   !.activeElement = IF u.popup[i].given THEN CloseButton(i) ELSE @]
    ELSE [u EXCEPT !.isOpen[i] = FALSE,
                   !.keydown = Without(@, i),
                   !.overflow = ""]

\* part_009:97-100
openModal(u, i) == IF ~hasPopup(u.popup[i]) THEN u ELSE setIsOpen(u, i, TRUE)

closeModalFocusOnly(u, i) ==
    [u EXCEPT !.activeElement =
        IF u.mounted[i] /\ hasPopup(u.popup[i]) THEN Trigger(i) ELSE @]

\* part_009:88-94: the timer focuses the trigger button if it is rendered
closeModal(u, i) ==
    LET closed == setIsOpen(u, i, FALSE)
    IN  [closed EXCEPT !.activeElement =
            IF u.mounted[i] /\ hasPopup(u.popup[i]) THEN Trigger(i) ELSE @]

\* setMobileMenuOpen(value), the re-render and the effects of
\* HeaderClient.tsx:40-73
setMobileMenuOpen(u, value) ==
    IF u.mobileMenuOpen = value THEN u
    ELSE IF value
    THEN [u EXCEPT !.mobileMenuOpen = TRUE,
                   !.keydown = Append(Without(@, 0), 0),
                   !.overflow = "hidden",
                   !.activeElement = MenuCloseButton]
    ELSE [u EXCEPT !.mobileMenuOpen = FALSE,
                   !.keydown = Without(@, 0),
                   !.overflow = ""]

\* HeaderClient.tsx:54-58
closeMenu(u) == [setMobileMenuOpen(u, FALSE) EXCEPT !.activeElement = MenuButton]

\* the overlays: the modal of an image, or the menu (0)
Overlays == Images \cup {0}
OverlayShown(u, o) == IF o = 0 THEN u.mobileMenuOpen ELSE ModalShown(u, o)

\* focusableElements[0] and focusableElements[length - 1] of handleTabKey,
\* part_009:139-144 and HeaderClient.tsx:83-87: the modal holds the close
\* button and, if the popup has a link, the link; the menu holds its close
\* button and its links
FirstFocusable(u, o) == IF o = 0 THEN MenuCloseButton ELSE CloseButton(o)
LastFocusable(u, o) ==
    IF o = 0 THEN MenuLink
    ELSE IF Truthy(u.popup[o].link) THEN PopupLink(o) ELSE CloseButton(o)

\* where the browser moves focus on Tab or Shift+Tab when no handler has
\* called preventDefault: to the next or the previous focusable element in
\* document order
TabDefault(u, shift) ==
    LET a == u.activeElement
        i == a.image
    IN  IF i \in Images /\ a = CloseButton(i)
        THEN (IF ~shift /\ Truthy(u.popup[i].link) THEN PopupLink(i) ELSE Page)
        ELSE IF i \in Images /\ a = PopupLink(i)
        THEN (IF shift THEN CloseButton(i) ELSE Page)
        ELSE IF i \in Images /\ a = ModalText(i)
        THEN (IF shift THEN CloseButton(i)
              ELSE IF Truthy(u.popup[i].link) THEN PopupLink(i) ELSE Page)
        ELSE IF a = MenuCloseButton
        THEN (IF shift THEN Page ELSE MenuLink)
        ELSE IF a = MenuLink
        THEN (IF shift THEN MenuCloseButton ELSE Page)
        ELSE Page

\* a keydown of Tab: the handleTabKey of each open overlay, part_009:132-160
\* and HeaderClient.tsx:76-103, then the browser's default
Tab(u, shift) ==
    LET wrapping == {o \in Overlays :
                        /\ OverlayShown(u, o)
                        /\ u.activeElement = IF shift THEN FirstFocusable(u, o)
                                             ELSE LastFocusable(u, o)}
    IN  IF wrapping # {}
        THEN LET o == CHOOSE w \in wrapping : TRUE
             IN  [u EXCEPT !.activeElement = IF shift THEN LastFocusable(u, o)
                                             ELSE FirstFocusable(u, o)]
        ELSE [u EXCEPT !.activeElement = TabDefault(u, shift)]

\* a keydown of Escape reaches the listeners of the document in the order
\* they were added; 0 is the header's
RECURSIVE Escape(_, _)
Escape(u, listeners) ==
    IF listeners = <<>> THEN u
    ELSE LET owner == Head(listeners)
             next == IF owner = 0
                     THEN (IF u.mobileMenuOpen THEN closeMenu(u) ELSE u)
                     ELSE (IF u.isOpen[owner] THEN closeModal(u, owner) ELSE u)
         IN  Escape(next, Tail(listeners))

\* an instance is removed: the clean-up of its effects runs, part_009:116-119
Unmounted(u, i) ==
    IF ~u.mounted[i] THEN u
    ELSE [u EXCEPT !.mounted[i] = FALSE,
                   !.isOpen[i] = FALSE,
                   !.popup[i] = NoPopup,
                   !.keydown = Without(@, i),
                   !.overflow = "",
                   !.activeElement = IF @.image = i THEN Body ELSE @]

RECURSIVE UnmountedAll(_, _)
UnmountedAll(u, is) ==
    IF is = {} THEN u
    ELSE LET i == CHOOSE j \in is : \A k \in is : j <= k
         IN  UnmountedAll(Unmounted(u, i), is \ {i})

\* a header without the effect on [pathname]
RouteChangedKeepingMenu(u, pathname, popups) ==
    LET left == UnmountedAll(u, Images)
    IN  [left EXCEPT !.pathname = pathname,
                     !.popup = popups,
                     !.mounted = [i \in Images |-> TRUE]]

\* the pathname changes: the page's instances are removed, those of the new
\* page are rendered closed, and the header's effect on [pathname] runs,
\* HeaderClient.tsx:35-38
RouteChanged(u, pathname, popups) ==
    LET left == UnmountedAll(u, Images)
        arrived == [left EXCEPT !.pathname = pathname,
                                !.popup = popups,
                                !.mounted = [i \in Images |-> TRUE]]
    IN  setMobileMenuOpen(arrived, FALSE)

----------------------------------------------------------------------------
(* Actions *)

InitServer ==
    /\ secret \in BOOLEAN
    /\ dataCache = {}
    /\ req = NoRequest
    /\ resp = NoResponse
    /\ calls = <<>>
    /\ revalidatedTags = <<>>
    /\ revalidatedPaths = <<>>
    /\ first = [set |-> FALSE, req |-> NoRequest, resp |-> NoResponse, calls |-> <<>>,
                between |-> FALSE, replayed |-> FALSE]
    /\ fault = NoFault
    /\ pages = NoPages
    /\ fetched = NoFetch
    /\ measured = NotMeasured

InitSite == InitServer /\ ui = NoUI

Init == InitSite /\ view = NoView

\* a webhook request is handled from receipt to response
POST(r) ==
    LET out == Handle(secret, r, revalidatedTags, revalidatedPaths) IN
    /\ req' = r
    /\ resp' = [status |-> out.status, body |-> out.body]
    /\ calls' = out.calls
    /\ revalidatedTags' = out.tags
    /\ revalidatedPaths' = out.paths
    /\ dataCache' = ApplyCalls(dataCache, out.calls)
    /\ UNCHANGED secret

HealthCheckGuarded(env, now) ==
    IF env
    THEN [status |-> 200,
          body |-> [status |-> "ok", message |-> "Revalidation webhook endpoint is active",
                    timestamp |-> now]]
    ELSE [status |-> 500, body |-> [message |-> "Server misconfigured"]]

\* the response of GET, route.ts:169-175; the handler reads nothing of the
\* environment env
HealthCheck(env, now) ==
    [status |-> 200,
     body |-> [status |-> "ok", message |-> "Revalidation webhook endpoint is active",
               timestamp |-> now]]

\* a GET request is answered on day today
GET(today) ==
    /\ req' = NoRequest
    /\ resp' = HealthCheck(secret, toISOString(today))
    /\ calls' = <<>>
    /\ revalidatedTags' = <<>>
    /\ revalidatedPaths' = <<>>
    /\ UNCHANGED <<secret, dataCache>>

\* a route is generated or rendered: each of its queries goes through
\* sanityFetch, and a result not in the data cache is fetched and cached
Render(cache, route) == cache \cup RouteQueries[route]

\* every route of the site rendered over a cache, as a build or a crawl does
RECURSIVE RenderAll(_, _)
RenderAll(cache, routes) ==
    IF routes = {} THEN cache
    ELSE LET route == CHOOSE x \in routes : TRUE
         IN  RenderAll(Render(cache, route), routes \ {route})

Webhook == \E r \in Requests : POST(r) /\ UNCHANGED first /\ UNCHANGED otherVars

\* the site is built: every route is generated and its fetches are cached
Build ==
    /\ dataCache' = RenderAll(dataCache, Routes)
    /\ UNCHANGED <<secret, req, resp, calls, revalidatedTags, revalidatedPaths, first>>
    /\ UNCHANGED otherVars

Next == Webhook \/ Build

\* the CMS posts a signed request
SignedWebhook ==
    \E r \in Requests :
        r.isValidSignature = "true" /\ POST(r) /\ UNCHANGED first /\ UNCHANGED otherVars

\* a monitor asks whether the endpoint is up
Health == \E today \in 0..MaxDate : GET(today) /\ UNCHANGED first /\ UNCHANGED otherVars

NextHealth == SignedWebhook \/ Build \/ Health

SpecHealth == Init /\ [][NextHealth]_vars

Spec == Init /\ [][Next]_vars

\* the same handler, with the first request answered 200 and its outcome
\* remembered for comparison with later requests
WebhookRecorded ==
    \E r \in Requests :
        /\ POST(r)
        /\ first' = IF first.set
                    THEN IF r = first.req
                         THEN [first EXCEPT !.replayed = TRUE]
                         ELSE [first EXCEPT !.between = TRUE]
                    ELSE IF resp'.status = 200
                    THEN [set |-> TRUE, req |-> r, resp |-> resp', calls |-> calls',
                          between |-> FALSE, replayed |-> FALSE]
                    ELSE first
        /\ UNCHANGED otherVars

NextReplay == WebhookRecorded

SpecReplay == Init /\ [][NextReplay]_vars

InitPages ==
    /\ secret = TRUE
    /\ dataCache = {}
    /\ req = NoRequest
    /\ resp = NoResponse
    /\ calls = <<>>
    /\ revalidatedTags = <<>>
    /\ revalidatedPaths = <<>>
    /\ first = [set |-> FALSE, req |-> NoRequest, resp |-> NoResponse, calls |-> <<>>,
                between |-> FALSE, replayed |-> FALSE]
    /\ fault = NoFault
    /\ pages \in {[NoPages EXCEPT !.type = t] : t \in DOMAIN documentTypeToTags}
    /\ fetched = NoFetch
    /\ view = NoView
    /\ measured = NotMeasured
    /\ ui = NoUI

\* an editor publishes a change to a document of the followed type
ContentChange ==
    /\ pages.version < MaxChanges
    /\ pages' = [pages EXCEPT !.version = @ + 1]
    /\ UNCHANGED <<handlerVars, fault, libVars>>

\* the CMS notifies the handler of the change with a signed request; the
\* handler's invalidations drop the tagged results from the data cache
ChangeWebhook ==
    \E slug \in Slugs \cup {Undefined} :
        LET r == [isValidSignature |-> "true",
                  body |-> [isNull |-> FALSE, _type |-> pages.type, slugCurrent |-> slug]]
        IN  /\ POST(r)
            /\ pages' = [pages EXCEPT
                            !.hooked = IF resp'.status = 200 THEN pages.version ELSE @,
                            !.cachedAt = [q \in Queries |->
                                            IF q \in dataCache' THEN @[q] ELSE NotCached]]
            /\ UNCHANGED <<first, fault, libVars>>

\* a page request begins, for a route that reads the followed type: each query
\* of the route goes through sanityFetch
BeginRender(route) ==
    /\ Cardinality(pages.inflight) < MaxInflight
    /\ RouteQueries[route] \cap TaggedFor(pages.type) # {}
    /\ pages' = [pages EXCEPT
                    !.inflight = @ \cup {[route |-> route,
                                          fetching |-> Misses(dataCache, route),
                                          version |-> pages.version]},
                    !.served = {q \in Hits(dataCache, route) \cap TaggedFor(pages.type) :
                                    pages.cachedAt[q] < pages.hooked}]
    /\ UNCHANGED <<handlerVars, fault, libVars>>

\* the CMS responses of a render arrive: each is stored in the data cache under
\* the call's tags and the page is returned
FinishRender(render) ==
    /\ render \in pages.inflight
    /\ dataCache' = dataCache \cup render.fetching
    /\ pages' = [pages EXCEPT
                    !.inflight = @ \ {render},
                    !.cachedAt = [q \in Queries |->
                                    IF q \in render.fetching THEN render.version ELSE @[q]]]
    /\ UNCHANGED <<secret, req, resp, calls, revalidatedTags, revalidatedPaths, first, fault, libVars>>

PageBegins == \E route \in Routes : BeginRender(route)
PageEnds == \E render \in pages.inflight : FinishRender(render)

NextPages == ContentChange \/ ChangeWebhook \/ PageBegins \/ PageEnds

SpecPages == InitPages /\ [][NextPages]_vars

\* a caller awaits sanityFetch(args) and the CMS client settles with outcome
Fetch(args, outcome) ==
    LET r == sanityFetch(args, outcome) IN
    /\ fetched' = [called |-> TRUE, args |-> args, client |-> outcome,
                   calls |-> r.calls, outcome |-> r.outcome]
    /\ UNCHANGED <<handlerVars, fault, pages, view, measured, ui>>

NextFetch == \E args \in FetchArgs, outcome \in ClientOutcomes : Fetch(args, outcome)

SpecFetch == Init /\ [][NextFetch]_vars

\* datasets of projects that differ in their dates
ProjectsByDate ==
    UNION {{ {[_id |-> id, _type |-> "project", slug |-> ProjectSlug(id),
               title |-> "Look", date |-> dates[id], category |-> "editorial"] : id \in ids} :
             dates \in [ids -> 1..MaxDate]} : ids \in SUBSET (1..MaxProjects)}

InitProject ==
    /\ InitSite
    /\ view \in {[NoView EXCEPT !.docs = docs] : docs \in ProjectsByDate}

\* projects/[slug]/page.tsx:57-143, requested on day today
ProjectPage(slug, today) ==
    LET project == projectBySlugQuery(view.docs, slug)
        adjacentProjects == adjacentProjectsQuery(view.docs, toISOString(today), slug)
    IN  /\ view' = [view EXCEPT !.page =
                        [route |-> "/projects/[slug]", slug |-> slug,
                         metadata |-> ProjectMetadata(view.docs, slug),
                         document |-> project, adjacent |-> adjacentProjects,
                         outcome |-> IF project = Null THEN "notFound"
                                     ELSE Outcome({ProjectMetadata(view.docs, slug)})]]
        /\ UNCHANGED <<handlerVars, fault, pages, fetched, measured, ui>>

NextProject ==
    \E id \in 1..MaxProjects + 1, today \in 0..MaxDate + 1 : ProjectPage(ProjectSlug(id), today)

SpecProject == InitProject /\ [][NextProject]_vars

\* the ways the publication times of posts 1..n follow their _id: rising,
\* falling, equal in pairs, scattered
PublishedAt ==
    [rising    |-> [n \in 0..MaxPosts + 1 |-> [i \in 1..n |-> i]],
     falling   |-> [n \in 0..MaxPosts + 1 |-> [i \in 1..n |-> n + 1 - i]],
     paired    |-> [n \in 0..MaxPosts + 1 |-> [i \in 1..n |-> (i + 1) \div 2]],
     scattered |-> [n \in 0..MaxPosts + 1 |-> [i \in 1..n |-> (i * 7) % 11]]]

BlogDatasets ==
    {{[_id |-> i, _type |-> "blogPost", slug |-> "post-" \o ToString(i), title |-> "Post",
       publishedAt |-> PublishedAt[pattern][n][i]] : i \in 1..n} :
        n \in 0..MaxPosts, pattern \in DOMAIN PublishedAt}

InitBlog ==
    /\ InitSite
    /\ view \in {[NoView EXCEPT !.docs = docs] : docs \in BlogDatasets}

\* blog/page.tsx:48-65, for ?page=page
BlogPage(page) ==
    LET currentPage == MathMax(Num(1), parseInt(OrParam(page, <<"1">>)))
        start == Times(Minus(currentPage, Num(1)), Num(POSTS_PER_PAGE))
        end == Plus(start, Num(POSTS_PER_PAGE))
    IN  /\ \E posts \in PostsFetched(view.docs, start, end) :
              view' = [view EXCEPT !.page =
                          [route |-> "/blog", param |-> page, currentPage |-> currentPage,
                           metadata |-> BlogMetadata(view.docs),
                           outcome |-> Outcome({BlogMetadata(view.docs)}),
                           start |-> start, end |-> end,
                           posts |-> posts,
                           totalCount |-> blogPostCountQuery(view.docs)]]
        /\ UNCHANGED <<handlerVars, fault, pages, fetched, measured, ui>>

NextBlog == \E page \in 1..MaxPage : BlogPage(Decimal(page))

\* values of ?page=: absent, empty, numerals, signed, fractional, with a
\* suffix, with white space, and without a digit
PageParams ==
    {NoParam, <<>>, <<"0">>, <<"1">>, <<"2">>, <<"0", "3">>, <<"-", "3">>, <<"+", "2">>,
     <<"2", ".", "5">>, <<"3", "a", "b", "c">>, <<" ", "2">>, <<"a", "b", "c">>, <<"-">>}

NextBlogParam == \E page \in PageParams : BlogPage(page)

SpecBlogParam == InitBlog /\ [][NextBlogParam]_vars

\* an entry of the page list: a page number, or 'ellipsis'
PageNumber(n) == [ellipsis |-> FALSE, page |-> n]
Ellipsis == [ellipsis |-> TRUE]

\* for (let i = start; i <= end; i++) pages.push(i)
PagesFrom(start, end) == [i \in 1..(end - start + 1) |-> PageNumber(start + i - 1)]

\* const showPages = 5, blog/page.tsx:315
showPages == 5

\* a page list with two neighbours on either side of the current page
getPageNumbersWide(currentPage, totalPages) ==
    IF totalPages <= showPages
    THEN PagesFrom(1, totalPages)
    ELSE <<PageNumber(1)>>
         \o (IF currentPage > 4 THEN <<Ellipsis>> ELSE <<>>)
         \o PagesFrom(Max(2, currentPage - 2), Min(totalPages - 1, currentPage + 2))
         \o (IF currentPage < totalPages - 3 THEN <<Ellipsis>> ELSE <<>>)
         \o <<PageNumber(totalPages)>>

\* getPageNumbers, blog/page.tsx:312-345
getPageNumbers(currentPage, totalPages) ==
    IF totalPages <= showPages
    THEN PagesFrom(1, totalPages)
    ELSE <<PageNumber(1)>>
         \o (IF currentPage > 3 THEN <<Ellipsis>> ELSE <<>>)
         \o PagesFrom(Max(2, currentPage - 1), Min(totalPages - 1, currentPage + 1))
         \o (IF currentPage < totalPages - 2 THEN <<Ellipsis>> ELSE <<>>)
         \o <<PageNumber(totalPages)>>

\* the page counts the pagination is rendered for
MaxTotalPages == 15

\* <Pagination currentPage totalPages hasNextPage hasPrevPage />,
\* blog/page.tsx:67-69, 138-145 and 301-470
Pagination(currentPage, totalPages) ==
    LET hasNextPage == currentPage < totalPages
        hasPrevPage == currentPage > 1
    IN  /\ totalPages > 1
        /\ view' = [view EXCEPT !.page =
                        [route |-> "/blog pagination",
                         currentPage |-> currentPage, totalPages |-> totalPages,
                         previous |-> IF hasPrevPage THEN "link" ELSE "span",
                         pageNumbers |-> getPageNumbers(currentPage, totalPages),
                         next |-> IF hasNextPage THEN "link" ELSE "span"]]
        /\ UNCHANGED <<handlerVars, fault, pages, fetched, measured, ui>>

NextPagination ==
    \E totalPages \in 1..MaxTotalPages :
        \E currentPage \in 1..totalPages : Pagination(currentPage, totalPages)

SpecPagination == Init /\ [][NextPagination]_vars

SpecBlog == InitBlog /\ [][NextBlog]_vars

\* documents in a dataset of posts and projects, and the slugs they carry
MaxDocs == 3
SlugNames == {"gala", "Gala", "muse"}

SlugDatasets ==
    UNION {{ {IF kind[id] = "blogPost"
              THEN [_id |-> id, _type |-> "blogPost", slug |-> slug[id], title |-> "Post",
                    publishedAt |-> id]
              ELSE [_id |-> id, _type |-> "project", slug |-> slug[id], title |-> "Look",
                    date |-> 1, category |-> "editorial"] : id \in ids} :
             kind \in [ids -> {"blogPost", "project"}], slug \in [ids -> SlugNames]} :
           ids \in SUBSET (1..MaxDocs)}

InitSlug ==
    /\ InitSite
    /\ view \in {[NoView EXCEPT !.docs = docs] : docs \in SlugDatasets}

\* blog/[slug]/page.tsx:43-119
BlogPostPage(slug) ==
    LET post == blogPostBySlugQuery(view.docs, slug)
    IN  /\ view' = [view EXCEPT !.page =
                        [route |-> "/blog/[slug]", slug |-> slug,
                         metadata |-> BlogPostMetadata(view.docs, slug),
                         document |-> post,
                         outcome |-> IF post = Null THEN "notFound"
                                     ELSE Outcome({BlogPostMetadata(view.docs, slug)})]]
        /\ UNCHANGED <<handlerVars, fault, pages, fetched, measured, ui>>

NextSlug ==
    \E slug \in SlugNames \cup {"GALA"} :
        \/ BlogPostPage(slug)
        \/ ProjectPage(slug, MaxDate + 1)

SpecSlug == InitSlug /\ [][NextSlug]_vars

\* datasets of projects that differ in their categories, beside one blog post
ProjectsByCategory ==
    UNION {{ {[_id |-> id, _type |-> "project", slug |-> ProjectSlug(id), title |-> "Look",
               date |-> 1, category |-> category[id]] : id \in ids}
             \cup {[_id |-> 0, _type |-> "blogPost", slug |-> "gala", title |-> "Post",
                    publishedAt |-> 1, category |-> "editorial"]} :
             category \in [ids -> Categories \cup {Undefined}]} :
           ids \in SUBSET (1..MaxProjects)}

InitCounts ==
    /\ InitSite
    /\ view \in {[NoView EXCEPT !.docs = docs] : docs \in ProjectsByCategory}

\* CATEGORY_CONFIG[category], projects/page.tsx:21-27: the entry of a category,
\* a member inherited from Object.prototype, or undefined
ConfigOf(category) ==
    IF category \in Categories THEN "entry"
    ELSE IF category \in ObjectPrototypeKeys THEN "inherited"
    ELSE Undefined

\* CATEGORY_CONFIG[category].description
DescriptionOf(category) ==
    IF ConfigOf(category) = Undefined THEN TypeError ELSE "description"

\* CATEGORY_CONFIG[category].label.toLowerCase()
LowerLabelOf(category) ==
    IF ConfigOf(category) = "entry" THEN "label" ELSE TypeError

\* <EmptyState activeCategory={activeCategory} />, projects/page.tsx:399-430
EmptyState(activeCategory) ==
    IF Truthy(activeCategory)
    THEN Completes({LowerLabelOf(activeCategory)}, [shows |-> "empty state"])
    ELSE [shows |-> "empty state"]

\* the gallery section, projects/page.tsx:180-209
Gallery(projects, activeCategory) ==
    IF Len(projects) > 0
    THEN IF Truthy(activeCategory)
         THEN Completes({DescriptionOf(activeCategory), LowerLabelOf(activeCategory)},
                        [shows |-> "list"])
         ELSE [shows |-> "list"]
    ELSE EmptyState(activeCategory)

\* projects/page.tsx:78-209, from the results of the two fetches
ProjectsRendered(category, allProjects, categoryCounts) ==
    LET projects == IF Truthy(category)
                    THEN SelectSeq(allProjects, LAMBDA project : project.category = category)
                    ELSE allProjects
        gallery == Gallery(projects, category)
    IN  [route |-> "/projects", activeCategory |-> category,
         metadata |-> ProjectsMetadata(view.docs),
         gallery |-> gallery,
         outcome |-> Outcome({ProjectsMetadata(view.docs), gallery}),
         projects |-> projects,
         categoryCounts |-> categoryCounts,
         showFilter |-> categoryCounts["all"] > SHOW_FILTER_THRESHOLD,
         activeCategories |-> {c \in Categories : categoryCounts[c] > 0}]

\* projects/page.tsx:38-82, for ?category=category, over one state of the dataset
ProjectsPage(category) ==
    /\ view' = [view EXCEPT !.page =
                    ProjectsRendered(category, projectsQuery(view.docs),
                                     projectCountByCategoryQuery(view.docs))]
    /\ UNCHANGED <<handlerVars, fault, pages, fetched, measured, ui>>

NextCounts == \E category \in Categories \cup {Undefined} : ProjectsPage(category)

SpecCounts == InitCounts /\ [][NextCounts]_vars

\* values of ?category=: absent, empty, the five categories, and strings that
\* are none of them
CategoryParams == Categories \cup {Undefined, "", "couture", "toString"}

NextCategory == \E category \in CategoryParams : ProjectsPage(category)

SpecCategory == InitCounts /\ [][NextCategory]_vars

\* the projects an editor works on, and the categories they give them
SnapshotIds == {1, 2}
SnapshotCategories == {"editorial", "campaign"}

ProjectDocument(id, category) ==
    [_id |-> id, _type |-> "project", slug |-> ProjectSlug(id), title |-> "Look",
     date |-> 1, category |-> category]

SnapshotDatasets ==
    UNION {{ {ProjectDocument(id, category[id]) : id \in ids} :
             category \in [ids -> SnapshotCategories]} :
           ids \in SUBSET SnapshotIds}

InitSnapshot ==
    /\ InitSite
    /\ secret
    /\ view \in {[NoView EXCEPT !.docs = docs] : docs \in SnapshotDatasets}

\* an editor creates, deletes or re-categorises one project
ProjectEdit ==
    \E id \in SnapshotIds, docs \in SnapshotDatasets :
        /\ docs # view.docs
        /\ {d \in docs : d._id # id} = {d \in view.docs : d._id # id}
        /\ view' = [view EXCEPT !.docs = docs]
        /\ UNCHANGED <<handlerVars, fault, pages, fetched, measured, ui>>

\* the CMS notifies the handler of a change to a project; revalidateTag drops
\* the results tagged 'project' from the data cache
ProjectWebhook ==
    LET r == [isValidSignature |-> "true",
              body |-> [isNull |-> FALSE, _type |-> "project", slugCurrent |-> Undefined]]
    IN  /\ POST(r)
        /\ pages' = [pages EXCEPT !.results = [q \in ProjectsFetches |->
                                                 IF q \in dataCache' THEN @[q] ELSE NoResult]]
        /\ UNCHANGED <<first, fault, libVars>>

\* what the CMS answers to a query at this moment
Evaluated(query, docs) ==
    IF query = "projectsQuery" THEN projectsQuery(docs)
    ELSE projectCountByCategoryQuery(docs)

\* one of the two sanityFetch calls of Promise.all is answered,
\* projects/page.tsx:67-76 and client.ts:25-30: from the data cache if it holds
\* the query's result, else by the CMS, whose answer is stored under 'project'
FetchAnswered(query) ==
    LET result == IF query \in dataCache THEN pages.results[query]
                  ELSE Result(Evaluated(query, view.docs))
    IN  /\ ~pages.gathered[query].held
        /\ dataCache' = dataCache \cup {query}
        /\ pages' = [pages EXCEPT !.results[query] = result, !.gathered[query] = result]
        /\ UNCHANGED <<secret, req, resp, calls, revalidatedTags, revalidatedPaths, first,
                       fault, libVars>>

\* both fetches are answered: the page is rendered from the two results
ProjectsPageRendered ==
    /\ \A query \in ProjectsFetches : pages.gathered[query].held
    /\ view' = [view EXCEPT !.page =
                    ProjectsRendered(Undefined, pages.gathered["projectsQuery"].value,
                                     pages.gathered["projectCountByCategoryQuery"].value)]
    /\ pages' = [pages EXCEPT !.gathered = [q \in ProjectsFetches |-> NoResult]]
    /\ UNCHANGED <<handlerVars, fault, fetched, measured, ui>>

NextSnapshot ==
    \/ ProjectEdit
    \/ ProjectWebhook
    \/ \E query \in ProjectsFetches : FetchAnswered(query)
    \/ ProjectsPageRendered

SpecSnapshot == InitSnapshot /\ [][NextSnapshot]_vars

\* the singleton documents a dataset may hold, each with its fields set or not
Singletons ==
    [homepage     |-> [_type : {"homepage"}, _id : {"homepage"},
                       metaTitle : {Undefined, "Jane Coolidge"},
                       heroHeading : {Undefined, "Style, considered"}],
     aboutPage    |-> [_type : {"aboutPage"}, _id : {"aboutPage"},
                       metaTitle : {Undefined, "About Jane"},
                       heading : {Undefined, "The stylist"}],
     contactPage  |-> [_type : {"contactPage"}, _id : {"contactPage"},
                       metaTitle : {Undefined, "Write to Jane"},
                       heading : {Undefined, "Say hello"}],
     siteSettings |-> [_type : {"siteSettings"}, _id : {"siteSettings"},
                       siteName : {Undefined, "Jane Coolidge"}],
     navigation   |-> [_type : {"navigation"}, _id : {"navigation"},
                       mainMenu : {Undefined, "Work, Journal"}]]

\* zero or one document of the type
ZeroOrOne(type) == {{}} \cup {{d} : d \in Singletons[type]}

\* a post and a project, beside which the singletons are present or not
SingletonDatasets ==
    {{[_id |-> "post", _type |-> "blogPost", slug |-> "gala", title |-> "Post",
       publishedAt |-> 1],
      [_id |-> "look", _type |-> "project", slug |-> "gala", title |-> "Look",
       date |-> 1, category |-> "editorial"]}
     \cup h \cup a \cup c \cup g \cup n :
        h \in ZeroOrOne("homepage"), a \in ZeroOrOne("aboutPage"),
        c \in ZeroOrOne("contactPage"), g \in ZeroOrOne("siteSettings"),
        n \in ZeroOrOne("navigation")}

InitSingleton ==
    /\ InitSite
    /\ view \in {[NoView EXCEPT !.docs = docs] : docs \in SingletonDatasets}

\* a page made of one singleton document: its metadata function and its body
SingletonPage(route, document, metaFallback, headingField, headingFallback) ==
    LET metadata == PageMetadata(document, metaFallback)
        content == PageHeading(document, headingField, headingFallback)
    IN  /\ view' = [view EXCEPT !.page =
                        [route |-> route, document |-> document, metadata |-> metadata,
                         content |-> content, outcome |-> Outcome({metadata, content})]]
        /\ UNCHANGED <<handlerVars, fault, pages, fetched, measured, ui>>

\* app/(site)/page.tsx:49-99 and components/home/HomePageClient.tsx
HomePage ==
    SingletonPage("/", homepageQuery(view.docs), "Home", "heroHeading", "Fashion Forward")

\* about/page.tsx:14-110
AboutPage ==
    SingletonPage("/about", aboutPageQuery(view.docs), "About", "heading", "About")

\* contact/page.tsx (generateMetadata, ContactPage)
ContactPage ==
    SingletonPage("/contact", contactPageQuery(view.docs), "Contact", "heading", "Contact")

\* app/(site)/layout.tsx: Header and Footer fetch the settings and the menu
SiteLayout ==
    LET settings == siteSettingsQuery(view.docs)
        navigation == navigationQuery(view.docs)
        content == LayoutContent(settings, navigation)
    IN  /\ view' = [view EXCEPT !.page =
                        [route |-> "layout", settings |-> settings,
                         navigation |-> navigation, content |-> content,
                         outcome |-> Outcome({content})]]
        /\ UNCHANGED <<handlerVars, fault, pages, fetched, measured, ui>>

NextSingleton ==
    \/ HomePage
    \/ AboutPage
    \/ ContactPage
    \/ SiteLayout
    \/ BlogPage(NoParam)
    \/ ProjectsPage(Undefined)
    \/ BlogPostPage("gala")
    \/ ProjectPage("gala", MaxDate + 1)

SpecSingleton == InitSingleton /\ [][NextSingleton]_vars

\* a component measures an image built for W x H pixels
Measure(given) ==
    /\ measured' = [called |-> TRUE, image |-> given.image, W |-> given.W, H |-> given.H,
                    dimensions |-> getImageDimensions(given.image)]
    /\ UNCHANGED <<handlerVars, fault, pages, fetched, view, ui>>

NextImage == \E given \in WellFormedImages \cup OtherImages : Measure(given)

SpecImage == Init /\ [][NextImage]_vars

\* the browser shows a page with its ImageWithPopup instances
InitUI ==
    /\ InitServer
    /\ view = NoView
    /\ ui \in {[NoUI EXCEPT !.popup = popups, !.mounted = [i \in Images |-> TRUE]] :
                  popups \in [Images -> Popups]}

\* the pages arrived at by a route change: every image with the same popup prop
ArrivalPopups == {[i \in Images |-> popup] : popup \in Popups}

\* the user's event is handled: handler, re-render and effects
EventHandled(kind, i, after) ==
    /\ ui' = [after EXCEPT !.event = [kind |-> kind, image |-> i]]
    /\ UNCHANGED <<handlerVars, fault, pages, fetched, view, measured>>

\* a click on the image: onClick={hasPopup ? openModal : undefined}, part_009:202
ClickImage(i) ==
    /\ ui.mounted[i]
    /\ EventHandled("click image", i, IF hasPopup(ui.popup[i]) THEN openModal(ui, i) ELSE ui)

\* a click on the 'View Details' button, rendered when hasPopup, part_009:240-242
ClickViewDetails(i) ==
    /\ ui.mounted[i] /\ hasPopup(ui.popup[i])
    /\ EventHandled("click View Details", i, openModal(ui, i))

\* a click on the backdrop of the modal, part_009:303-310
ClickBackdrop(i) ==
    /\ ModalShown(ui, i)
    /\ EventHandled("click backdrop", i, closeModal(ui, i))

\* a click on the close button of the modal, part_009:340-342
ClickCloseButton(i) ==
    /\ ModalShown(ui, i)
    /\ EventHandled("click Close popup", i, closeModal(ui, i))

\* a click inside the modal content: stopPropagation, part_009:329
ClickContent(i) ==
    /\ ModalShown(ui, i)
    /\ EventHandled("click content", i, [ui EXCEPT !.activeElement = ModalText(i)])

\* the Escape key
PressEscape == EventHandled("Escape", 0, Escape(ui, ui.keydown))

\* the Tab key, with or without Shift
PressTab(shift) ==
    EventHandled(IF shift THEN "Shift+Tab" ELSE "Tab", 0, Tab(ui, shift))

\* the menu button: setMobileMenuOpen(!mobileMenuOpen), HeaderClient.tsx:181-189
ClickMenuButton ==
    EventHandled("click menu button", 0, setMobileMenuOpen(ui, ~ui.mobileMenuOpen))

\* the backdrop of the menu, HeaderClient.tsx:240-246
ClickMenuBackdrop ==
    /\ ui.mobileMenuOpen
    /\ EventHandled("click menu backdrop", 0, setMobileMenuOpen(ui, FALSE))

\* the close button of the menu, HeaderClient.tsx:271-273
ClickMenuClose ==
    /\ ui.mobileMenuOpen
    /\ EventHandled("click Close menu", 0, closeMenu(ui))

\* a link of the menu: onClick={closeMenu}, HeaderClient.tsx:307-311, then the
\* router goes to its href
ClickMenuLink(href, popups) ==
    /\ ui.mobileMenuOpen
    /\ EventHandled("click menu link", 0,
               IF href = ui.pathname THEN closeMenu(ui)
               ELSE RouteChanged(closeMenu(ui), href, popups))

\* the route changes otherwise: a link of the page, or back and forward
Navigate(pathname, popups) ==
    /\ pathname # ui.pathname
    /\ EventHandled("route change", 0, RouteChanged(ui, pathname, popups))

\* one instance leaves the page
Unmount(i) ==
    /\ ui.mounted[i]
    /\ EventHandled("unmount", i, Unmounted(ui, i))

NextUI ==
    \/ \E i \in Images :
          \/ ClickImage(i)
          \/ ClickViewDetails(i)
          \/ ClickBackdrop(i)
          \/ ClickCloseButton(i)
          \/ ClickContent(i)
          \/ Unmount(i)
    \/ PressEscape
    \/ \E shift \in BOOLEAN : PressTab(shift)
    \/ ClickMenuButton
    \/ ClickMenuBackdrop
    \/ ClickMenuClose
    \/ \E pathname \in Paths, popups \in ArrivalPopups :
          \/ ClickMenuLink(pathname, popups)
          \/ Navigate(pathname, popups)

SpecUI == InitUI /\ [][NextUI]_vars

\* a webhook request during which f is raised
POSTFault(r, f) ==
    LET out == HandleFault(secret, r, f, revalidatedTags, revalidatedPaths) IN
    /\ req' = r
    /\ fault' = f
    /\ resp' = [status |-> out.status, body |-> out.body]
    /\ calls' = out.calls
    /\ revalidatedTags' = out.tags
    /\ revalidatedPaths' = out.paths
    /\ dataCache' = ApplyCalls(dataCache, out.calls)
    /\ UNCHANGED <<secret, first, pages, libVars>>

\* whether f can be raised while r is handled: parseBody runs once the secret
\* is found, and the index-th call exists only in an accepted request; the
\* requests handled without an exception are those with a valid signature
Raisable(r, f) ==
    \/ f.at = "none" /\ r.isValidSignature = "true"
    \/ f.at = "parseBody" /\ secret /\ r = NoRequest
    \/ /\ f.at = "call"
       /\ LET normal == Handle(secret, r, <<>>, <<>>)
          IN  normal.status = 200 /\ f.index <= Len(normal.calls)

WebhookFault ==
    \E r \in Requests, f \in Faults : Raisable(r, f) /\ POSTFault(r, f)

NextFault == WebhookFault \/ Build

SpecFault == Init /\ [][NextFault]_vars

----------------------------------------------------------------------------
(* Properties of the handler and the cache *)

\* a request has been handled
Handled == resp.status # 0

\* the request handled last carried a valid signature and a non-empty _type
\* while the secret was configured
Accepted ==
    /\ Handled /\ secret
    /\ req.isValidSignature = "true"
    /\ ~req.body.isNull /\ Truthy(req.body._type)

\* C1: a webhook for type T answered 200 leaves no cached fetch result whose
\* query reads documents of type T: every such result carried a tag the
\* handler invalidated.
C1_WebhookInvalidatesEveryReader ==
    [][(POST(req') /\ resp'.status = 200)
          => \A q \in dataCache' : req'.body._type \notin QueryReads[q]]_vars

\* C2: a request answered 500 for the missing secret, 401 or 400 made no
\* revalidateTag and no revalidatePath call and left the data cache as it was.
C2_RejectedRequestChangesNothing ==
    [][(POST(req') /\ (resp'.status \in {400, 401} \/ (resp'.status = 500 /\ ~secret)))
          => (calls' = <<>> /\ dataCache' = dataCache)]_vars

C2_Witness ==
    /\ resp.status = 401 /\ secret
    /\ ~req.body.isNull /\ req.body._type = "blogPost"
    /\ "blogPostsQuery" \in dataCache

TagArgs(cs) ==
    LET tagCalls == SelectSeq(cs, LAMBDA c : c.fn = "revalidateTag")
    IN  [i \in 1..Len(tagCalls) |-> tagCalls[i].arg]

PathCalls(cs) == SelectSeq(cs, LAMBDA c : c.fn = "revalidatePath")

\* how the response names a revalidatePath call
Reported(c) == IF c.scope = "layout" THEN c.arg \o " (layout)" ELSE c.arg

ReportedPaths(cs) == [i \in 1..Len(PathCalls(cs)) |-> Reported(PathCalls(cs)[i])]

TableKeys ==
    {"homepage", "aboutPage", "contactPage", "siteSettings", "navigation",
     "blogPost", "project", "popupContent"}

\* C4: an accepted request for one of the eight table keys invalidates exactly
\* that key's table entry; for any other _type the answer is 200 and the
\* invalidated tags are exactly <<_type>>.
C4_TagsByType ==
    Accepted =>
        LET expected == IF req.body._type \in TableKeys
                        THEN documentTypeToTags[req.body._type]
                        ELSE <<req.body._type>>
        IN  /\ resp.status = 200
            /\ resp.body.tags = expected
            /\ TagArgs(calls) = expected

\* C5: an accepted blogPost or project request invalidates the detail path
\* base/slug, the listing path base and the homepage when slug.current is
\* non-empty, and only the listing path and the homepage otherwise.
C5_CollectionPaths ==
    (Accepted /\ req.body._type \in {"blogPost", "project"}) =>
        LET base     == IF req.body._type = "blogPost" THEN "/blog" ELSE "/projects"
            slug     == req.body.slugCurrent
            expected == IF slug \in {"", Undefined}
                        THEN <<base, "/">>
                        ELSE <<base \o "/" \o slug, base, "/">>
        IN  /\ resp.status = 200
            /\ resp.body.paths = expected
            /\ PathCalls(calls) = [i \in 1..Len(expected) |-> PathCall(expected[i], "page")]

C5_Witness ==
    /\ Accepted /\ resp.status = 200
    /\ req.body._type = "project" /\ req.body.slugCurrent = "s1"
    /\ Len(resp.body.paths) = 3

\* C6: an accepted siteSettings or navigation request invalidates the layout
\* rooted at "/" and is answered with paths <<"/ (layout)">> and tags <<_type>>.
C6_LayoutInvalidation ==
    (Accepted /\ req.body._type \in {"siteSettings", "navigation"}) =>
        /\ resp.status = 200
        /\ PathCalls(calls) = <<PathCall("/", "layout")>>
        /\ resp.body.paths = <<"/ (layout)">>
        /\ resp.body.tags = <<req.body._type>>

C6_Witness ==
    /\ Accepted /\ resp.status = 200
    /\ req.body._type = "navigation" /\ req.body.slugCurrent = "s1"
    /\ PathCall("/", "layout") \in {calls[i] : i \in 1..Len(calls)}

\* C7: an accepted homepage, aboutPage or contactPage request invalidates
\* exactly the path "/", "/about" or "/contact", with or without a slug.
C7_SingletonPaths ==
    (Accepted /\ req.body._type \in {"homepage", "aboutPage", "contactPage"}) =>
        LET expected == CASE req.body._type = "homepage"    -> "/"
                          [] req.body._type = "aboutPage"   -> "/about"
                          [] req.body._type = "contactPage" -> "/contact"
        IN  /\ resp.status = 200
            /\ resp.body.paths = <<expected>>
            /\ PathCalls(calls) = <<PathCall(expected, "page")>>

C7_Witness ==
    /\ Accepted /\ resp.status = 200
    /\ req.body._type = "contactPage" /\ req.body.slugCurrent = "s1"
    /\ resp.body.paths = <<"/contact">>

\* C8: an accepted request for popupContent, or for a type in none of the
\* handler's tables, makes no revalidatePath call and is answered with an
\* empty paths array, with or without a slug.
C8_NoPathsForOtherTypes ==
    (Accepted /\ (req.body._type = "popupContent"
                    \/ req.body._type \notin (DOMAIN documentTypeToTags
                                                \cup DOMAIN documentTypeToPath
                                                \cup DOMAIN singletonPaths
                                                \cup {"siteSettings", "navigation",
                                                      "blogPost", "project"}))) =>
        /\ PathCalls(calls) = <<>>
        /\ resp.status = 200
        /\ resp.body.paths = <<>>

C10_ResponseReportsCalls ==
    resp.status = 200 =>
        /\ resp.body.tags = TagArgs(calls)
        /\ resp.body.paths = ReportedPaths(calls)
        /\ Len(calls) = Len(resp.body.tags) + Len(resp.body.paths)

C10_Witness ==
    /\ resp.status = 200
    /\ req.body._type = "unknownType"
    /\ resp.body.tags = <<"unknownType">> /\ Len(calls) = 1

\* C11: when parseBody or a revalidateTag / revalidatePath call throws, the
\* handler answers 500 with a message and the error text, the exception does
\* not leave the handler, and the invalidations made before the failure stand.
C11_ExceptionAnswered500 ==
    [][(POSTFault(req', fault') /\ fault'.at # "none") =>
          LET normal == Handle(secret, req', <<>>, <<>>)
              before == IF fault'.at = "call"
                        THEN SubSeq(normal.calls, 1, fault'.index - 1)
                        ELSE <<>>
          IN  /\ resp'.status = 500
              /\ resp'.body.message = "Error processing webhook"
              /\ resp'.body.error =
                     (IF fault'.isError THEN fault'.message ELSE "Unknown error")
              /\ calls' = before
              /\ dataCache' = ApplyCalls(dataCache, before)]_vars

C11_Witness ==
    /\ fault.at = "call" /\ fault.index = 3
    /\ req.body._type = "blogPost" /\ req.body.slugCurrent = "s1"
    /\ resp.status = 500
    /\ calls = <<TagCall("blogPost"), PathCall("/blog/s1", "page")>>
    /\ "blogPostsQuery" \notin dataCache /\ "projectsQuery" \in dataCache

\* C12: once a webhook for a change of type T has been answered 200, a page
\* request that begins afterwards is served no cached result, among the
\* queries fetched under T's tags, that was read before the change: those
\* queries are executed against the CMS again.
C12_NoOlderResultAfterWebhook == pages.served = {}

\* C13: every sanityFetch call makes exactly one client.fetch call, and settles
\* as that call settled: a rejection reaches the caller with the client's
\* error, with no second attempt and no substituted value.
C13_OneFetchNoRetry ==
    fetched.called =>
        /\ Len(fetched.calls) = 1
        /\ fetched.outcome = fetched.client

C13_Witness ==
    /\ fetched.called
    /\ fetched.client.settled = "rejected"
    /\ fetched.outcome = [settled |-> "rejected", value |-> "ClientError: request failed"]

\* C14: the client receives the caller's query and params unchanged, with
\* revalidate 60 when left out and the caller's number or false otherwise,
\* params {} when left out and tags [] when left out.
C14_DefaultsAndPassThrough ==
    fetched.called =>
        LET a == fetched.args
            c == fetched.calls[1]
        IN  /\ c.query = a.query
            /\ c.params = (IF a.params.given THEN a.params.value ELSE << >>)
            /\ c.options.next.revalidate =
                   (IF a.revalidate.given THEN a.revalidate.value ELSE Number(60))
            /\ c.options.next.tags = (IF a.tags.given THEN a.tags.value ELSE <<>>)

C14_Witness ==
    /\ fetched.called
    /\ fetched.args = [query |-> "siteSettingsQuery", params |-> Omitted,
                       revalidate |-> Omitted, tags |-> Omitted]
    /\ fetched.calls[1].options.next = [revalidate |-> Number(60), tags |-> <<>>]

\* C15: on the detail page of project P, 'next' is a project of the greatest
\* date strictly less than P's date and 'previous' one of the least date
\* strictly greater than P's date, each null when there is no such project,
\* and neither is P.
C15_AdjacentRelativeToProject ==
    (view.page.route = "/projects/[slug]" /\ view.page.outcome = "rendered") =>
        LET P == view.page.document
            projects == OfType(view.docs, "project")
            older == {d \in projects : d.date < P.date}
            newer == {d \in projects : d.date > P.date}
            next == view.page.adjacent.next
            previous == view.page.adjacent.previous
        IN  /\ IF older = {} THEN next = Null
               ELSE next \in older /\ \A d \in older : d.date <= next.date
            /\ IF newer = {} THEN previous = Null
               ELSE previous \in newer /\ \A d \in newer : previous.date <= d.date
            /\ next # P /\ previous # P

\* C16: blog listing page p asks for the zero-indexed range [(p-1)*9, p*9) of
\* the posts in descending publishedAt order: it shows at most 9 posts, the
\* i-th post shown is the one with exactly (p-1)*9 + i - 1 posts before it in
\* that order (so consecutive pages neither repeat nor skip a post), and a
\* page past the end shows none.
C16_PageIsItsRange ==
    view.page.route = "/blog" =>
        LET p == view.page.currentPage.n
            posts == OfType(view.docs, "blogPost")
            shown == view.page.posts
            Before(d) == {e \in posts : \/ e.publishedAt > d.publishedAt
                                        \/ e.publishedAt = d.publishedAt /\ e._id < d._id}
        IN  /\ view.page.start = Num((p - 1) * 9) /\ view.page.end = Num(p * 9)
            /\ Len(shown) <= 9
            /\ Len(shown) = Max(0, Min(9, Cardinality(posts) - (p - 1) * 9))
            /\ \A i \in 1..Len(shown) :
                  /\ shown[i] \in posts
                  /\ Cardinality(Before(shown[i])) = (p - 1) * 9 + i - 1
            /\ \A i \in 1..Len(shown) - 1 : shown[i].publishedAt >= shown[i + 1].publishedAt

C16_Witness ==
    /\ view.page.route = "/blog"
    /\ view.page.currentPage = Num(3)
    /\ Cardinality(view.docs) = 19
    /\ Len(view.page.posts) = 1
    /\ \E d \in view.docs : d # view.page.posts[1]
                            /\ d.publishedAt = view.page.posts[1].publishedAt

\* C17: on a blog post or project detail page the document looked up is one of
\* the page's type whose slug.current is exactly the requested slug: with no
\* such document the lookup gives null, the page ends in not-found and the
\* metadata title is the page's "Not Found" title; with exactly one, the page
\* renders that document; no other document is ever rendered.
C17_BySlugExact ==
    view.page.route \in {"/blog/[slug]", "/projects/[slug]"} =>
        LET type == IF view.page.route = "/blog/[slug]" THEN "blogPost" ELSE "project"
            notFoundTitle == IF type = "blogPost" THEN "Post Not Found"
                             ELSE "Project Not Found"
            matching == {d \in view.docs : d._type = type /\ d.slug = view.page.slug}
        IN  /\ matching = {} =>
                  /\ view.page.document = Null
                  /\ view.page.outcome = "notFound"
                  /\ view.page.metadata = [title |-> notFoundTitle]
            /\ matching # {} =>
                  /\ view.page.document \in matching
                  /\ view.page.outcome = "rendered"
                  /\ view.page.metadata.title # notFoundTitle

C17_Witness ==
    /\ view.page.route = "/blog/[slug]"
    /\ view.page.slug = "Gala"
    /\ view.page.outcome = "notFound"
    /\ view.page.metadata.title = "Post Not Found"
    /\ \E d \in view.docs : d._type = "blogPost" /\ d.slug = "gala"
    /\ \E d \in view.docs : d._type = "project" /\ d.slug = "Gala"

\* C19: the category counts give, under 'all', the number of projects and,
\* under each of the five categories, the number of projects of exactly that
\* category; 'all' is at least the sum of the five, and all six are 0 when
\* the dataset has no project.
C19_CategoryCounts ==
    view.page.route = "/projects" =>
        LET counts == view.page.categoryCounts
            projects == {d \in view.docs : d._type = "project"}
            five == counts["editorial"] + counts["campaign"] + counts["lookbook"]
                    + counts["styling"] + counts["personal"]
        IN  /\ DOMAIN counts = {"all", "editorial", "campaign", "lookbook", "styling",
                                "personal"}
            /\ counts["all"] = Cardinality(projects)
            /\ \A c \in {"editorial", "campaign", "lookbook", "styling", "personal"} :
                  counts[c] = Cardinality({d \in projects : d.category = c})
            /\ counts["all"] >= five
            /\ projects = {} => \A c \in DOMAIN counts : counts[c] = 0

C19_Witness ==
    /\ view.page.route = "/projects"
    /\ view.page.categoryCounts["all"] = 3
    /\ view.page.categoryCounts["editorial"] = 1
    /\ view.page.categoryCounts["styling"] = 1
    /\ view.page.categoryCounts["campaign"] = 0
    /\ \E d \in view.docs : d._type = "project" /\ d.category = Undefined

\* C18: when the dataset has no document of a singleton type, the type's query
\* gives null and every page, layout component and metadata function that
\* reads it returns with its fallback values; none raises an error.
C18_MissingSingletonFallsBack ==
    LET Absent(type) == \A d \in view.docs : d._type # type
        page == view.page
    IN  /\ page.route # "none" => page.outcome # "error"
        /\ (page.route = "/" /\ Absent("homepage")) =>
              /\ page.document = Null
              /\ page.metadata = [title |-> "Home"]
              /\ page.content = [heading |-> "Fashion Forward"]
        /\ (page.route = "/about" /\ Absent("aboutPage")) =>
              /\ page.document = Null
              /\ page.metadata = [title |-> "About"]
              /\ page.content = [heading |-> "About"]
        /\ (page.route = "/contact" /\ Absent("contactPage")) =>
              /\ page.document = Null
              /\ page.metadata = [title |-> "Contact"]
              /\ page.content = [heading |-> "Contact"]
        /\ (page.route = "layout" /\ Absent("siteSettings")) =>
              /\ page.settings = Null
              /\ page.content.header.siteName = "Fashion"
              /\ page.content.footer.siteName = "Fashion"
        /\ (page.route = "layout" /\ Absent("navigation")) =>
              /\ page.navigation = Null
              /\ page.content.header.menu = ""
        /\ (page.route = "/blog" /\ Absent("siteSettings")) =>
              page.metadata = [title |-> "Journal | Fashion Blog"]
        /\ (page.route = "/projects" /\ Absent("siteSettings")) =>
              page.metadata = [title |-> "Portfolio | Fashion Portfolio"]
        /\ (page.route = "/blog/[slug]" /\ Absent("siteSettings")) =>
              page.metadata = [title |-> "Post | Fashion Blog"]
        /\ (page.route = "/projects/[slug]" /\ Absent("siteSettings")) =>
              page.metadata = [title |-> "Look | Fashion Portfolio"]

C18_Witness ==
    /\ \A d \in view.docs : d._type \in {"blogPost", "project"}
    /\ view.page.route = "layout"
    /\ view.page.settings = Null /\ view.page.navigation = Null
    /\ view.page.outcome = "rendered"
    /\ view.page.content.header = [siteName |-> "Fashion", menu |-> ""]

\* C20: for an image whose asset reference is image-{id}-{W}x{H}-{ext}, with W
\* and H positive and no hyphen in the id, getImageDimensions returns width W,
\* height H and an aspectRatio equal to W / H.
C20_DimensionsOfWellFormedReference ==
    (measured.called /\ measured.W > 0 /\ measured.H > 0) =>
        /\ measured.dimensions.width = measured.W
        /\ measured.dimensions.height = measured.H
        /\ measured.dimensions.aspectRatio.num * measured.H
               = measured.dimensions.aspectRatio.den * measured.W
        /\ measured.dimensions.aspectRatio.den > 0

C20_Witness ==
    /\ measured.called
    /\ measured.W = 12 /\ measured.H = 8
    /\ measured.dimensions = [width |-> 12, height |-> 8,
                              aspectRatio |-> [num |-> 3, den |-> 2]]

\* C21: for an image without an asset reference, or with a reference whose
\* dimension token is missing, has no 'x', or has a width or a height that is
\* not a number, getImageDimensions returns width 0, height 0, aspectRatio 1.
C21_MalformedReferenceFallsBack ==
    (measured.called /\ measured.W = 0 /\ measured.H = 0) =>
        measured.dimensions = [width |-> 0, height |-> 0,
                               aspectRatio |-> [num |-> 1, den |-> 1]]

\* C22: a GET is always answered with the health-check payload, status 'ok',
\* whether or not the secret is configured, and makes no revalidateTag or
\* revalidatePath call: the data cache is as before.
C22_GetIsHealthCheck ==
    [][(\E today \in 0..MaxDate : GET(today)) =>
          /\ resp'.status = 200
          /\ resp'.body.status = "ok"
          /\ resp'.body.message = "Revalidation webhook endpoint is active"
          /\ calls' = <<>>
          /\ dataCache' = dataCache]_vars

C22_Witness ==
    /\ ~secret
    /\ resp.status = 200
    /\ "status" \in DOMAIN resp.body
    /\ resp.body.status = "ok"
    /\ calls = <<>>
    /\ "homepageQuery" \in dataCache

\* C23: the modal of an image is open only if the image's popup has a title or
\* a description; a click on the image or on 'View Details' leaves it open;
\* Escape, a click on the backdrop and a click on the close button leave it
\* closed; a click inside the modal content leaves it open.
C23_ModalOpensAndCloses ==
    /\ \A i \in Images : ui.isOpen[i] => ui.mounted[i] /\ hasPopup(ui.popup[i])
    /\ \A i \in Images :
          /\ (ui.event.image = i /\ ui.event.kind \in {"click image", "click View Details"}
              /\ hasPopup(ui.popup[i])) => ui.isOpen[i]
          /\ (ui.event.image = i
              /\ ui.event.kind \in {"click backdrop", "click Close popup"}) => ~ui.isOpen[i]
          /\ ui.event.kind = "Escape" => ~ui.isOpen[i]
          /\ (ui.event.image = i /\ ui.event.kind = "click content") => ui.isOpen[i]

C23_Witness ==
    /\ ui.event = [kind |-> "click backdrop", image |-> 1]
    /\ ~ui.isOpen[1]
    /\ ui.popup[1].title = "Silk dress"
    /\ ui.activeElement = Trigger(1)
    /\ ~hasPopup(ui.popup[2])

\* C24: after any sequence of open, close, route-change and unmount events,
\* document.body.style.overflow is 'hidden' whenever a popup modal or the
\* mobile menu is open, and '' whenever none is.
C24_OverflowFollowsOverlays ==
    LET anyOpen == ui.mobileMenuOpen \/ \E i \in Images : ui.isOpen[i]
    IN  ui.overflow = IF anyOpen THEN "hidden" ELSE ""

\* C25: opening the modal of an image moves focus to its close button; while
\* it is the open overlay, Tab on its last focusable element moves focus to
\* its first, Shift+Tab on its first to its last, and no Tab or Shift+Tab
\* leaves focus outside the modal; closing it moves focus to the trigger
\* button.
C25_FocusStaysInModal ==
    [][\A i \in Images :
          LET inside == {CloseButton(i), PopupLink(i)}
              alone == /\ ModalShown(ui, i)
                       /\ \A o \in Overlays \ {i} : ~OverlayShown(ui, o)
          IN  /\ ((ClickImage(i) \/ ClickViewDetails(i)) /\ ~ui.isOpen[i]
                                                         /\ ui'.isOpen[i])
                    => ui'.activeElement = CloseButton(i)
              /\ (alone /\ PressTab(FALSE))
                    => /\ ui'.activeElement \in inside
                       /\ ui.activeElement = LastFocusable(ui, i)
                             => ui'.activeElement = FirstFocusable(ui, i)
              /\ (alone /\ PressTab(TRUE))
                    => /\ ui'.activeElement \in inside
                       /\ ui.activeElement = FirstFocusable(ui, i)
                             => ui'.activeElement = LastFocusable(ui, i)
              /\ ((ClickBackdrop(i) \/ ClickCloseButton(i)) /\ ui.isOpen[i])
                    => ui'.activeElement = Trigger(i)]_vars

\* C26: the mobile menu is closed after every route change; from the open
\* state the Escape key, the close button, the backdrop, a menu link and the
\* toggle button each lead to the closed state; only the toggle button opens
\* the menu.
C26_MenuClosesAndToggleOpens ==
    [][LET kind == ui'.event.kind
       IN  /\ kind \in {"route change", "click menu link"} => ~ui'.mobileMenuOpen
           /\ (ui.mobileMenuOpen /\ kind \in {"Escape", "click Close menu",
                                              "click menu backdrop", "click menu link",
                                              "click menu button"})
                 => ~ui'.mobileMenuOpen
           /\ (~ui.mobileMenuOpen /\ ui'.mobileMenuOpen) => kind = "click menu button"]_vars

\* a menu link to another page was clicked in the open menu, and the menu is
\* closed on the page arrived at
C26_Witness ==
    /\ ui.event.kind = "click menu link"
    /\ ui.pathname # NoUI.pathname
    /\ ~ui.mobileMenuOpen
    /\ ui.activeElement = MenuButton

\* C27: for every value of the blog listing's page parameter, currentPage is
\* an integer of at least 1, start is the integer (currentPage - 1) * 9, at
\* least 0, and end is start + 9.
C27_PageBoundsAreIntegers ==
    view.page.route = "/blog" =>
        /\ ~view.page.currentPage.nan /\ view.page.currentPage.n >= 1
        /\ ~view.page.start.nan /\ view.page.start.n >= 0
        /\ view.page.start.n = (view.page.currentPage.n - 1) * 9
        /\ ~view.page.end.nan /\ view.page.end.n = view.page.start.n + 9

\* C28: for every value of the projects page's category parameter, the page
\* renders without throwing: the list of the projects of that category (all
\* projects without a category), or the empty state when there is none.
C28_CategoryRendersListOrEmptyState ==
    view.page.route = "/projects" =>
        LET listed == OfType(view.docs, "project")
            matching == IF Truthy(view.page.activeCategory)
                        THEN {d \in listed : d.category = view.page.activeCategory}
                        ELSE listed
        IN  /\ view.page.outcome = "rendered"
            /\ {view.page.projects[i]._id : i \in 1..Len(view.page.projects)}
                  = {d._id : d \in matching}
            /\ view.page.gallery = [shows |-> IF matching = {} THEN "empty state" ELSE "list"]

\* C29: for totalPages >= 2 and 1 <= currentPage <= totalPages the page list
\* starts with 1, ends with totalPages, contains currentPage, has strictly
\* increasing page numbers, has at most 7 entries, and has an ellipsis only
\* between two numbers that differ by at least 2; Previous is a link exactly
\* when currentPage > 1 and Next exactly when currentPage < totalPages.
C29_PageListIsWellFormed ==
    view.page.route = "/blog pagination" =>
        LET list == view.page.pageNumbers
            numbers == SelectSeq(list, LAMBDA entry : ~entry.ellipsis)
        IN  /\ list[1] = PageNumber(1)
            /\ list[Len(list)] = PageNumber(view.page.totalPages)
            /\ \E i \in 1..Len(list) : list[i] = PageNumber(view.page.currentPage)
            /\ \A i \in 1..Len(numbers) - 1 : numbers[i].page < numbers[i + 1].page
            /\ Len(list) <= 7
            /\ \A i \in 1..Len(list) :
                  list[i].ellipsis =>
                      /\ 1 < i /\ i < Len(list)
                      /\ ~list[i - 1].ellipsis /\ ~list[i + 1].ellipsis
                      /\ list[i + 1].page - list[i - 1].page >= 2
            /\ view.page.previous = "link" <=> view.page.currentPage > 1
            /\ view.page.next = "link" <=> view.page.currentPage < view.page.totalPages

\* a page in the middle of many: seven entries, an ellipsis on either side
C29_Witness ==
    /\ view.page.route = "/blog pagination"
    /\ view.page.totalPages = 9
    /\ view.page.currentPage = 5
    /\ view.page.pageNumbers = <<PageNumber(1), Ellipsis, PageNumber(4), PageNumber(5),
                                 PageNumber(6), Ellipsis, PageNumber(9)>>
    /\ view.page.previous = "link" /\ view.page.next = "link"

\* C30: on every render of the projects page, with edits and webhooks between
\* its two fetches, the counts and the list describe one state of the dataset:
\* counts.all is the length of the unfiltered list and counts[c] is the number
\* of listed projects of category c.
C30_CountsMatchList ==
    view.page.route = "/projects" =>
        LET counts == view.page.categoryCounts
            list == view.page.projects
        IN  view.page.activeCategory = Undefined =>
                /\ counts["all"] = Len(list)
                /\ \A c \in Categories :
                      counts[c] = Cardinality({i \in 1..Len(list) : list[i].category = c})

====
